---- MODULE Spec2Model ----
\* Model of the Memory Bank checklist parser (src/memorybank-parser.ts):
\* getMemorybankProgress reads a markdown file, splits it into lines and folds
\* them through a ProgressBuilder (sections -> subsections -> items).
\*
\* Text is modelled as a sequence of UTF-16 code units, one string per code unit,
\* so that trim(), startsWith(), slice() and split() are computed as the code
\* computes them.
EXTENDS Integers, Sequences, FiniteSets, TLC

VARIABLES
    readable,   \* whether the path exists and can be read
    file,       \* the content of the file on disk (sequence of code units)
    lines,      \* content.split("\n"), set when the read completes
    idx,        \* position of the for-of loop in lines (1-based; next line to process)
    builder,    \* the ProgressBuilder: sections, currentSection, currentSubsection
    pc,         \* position of the getMemorybankProgress call
    result,     \* the document the promise resolved with, or Null
    error,      \* the message of the error the promise rejected with, or NoError
    itemLine,   \* input of the item-parsing specification: one raw line of text
    item,       \* the item parsed from itemLine, or Null
    calls,      \* two concurrent getMemorybankProgress calls: the locals of each
    builders,   \* the ProgressBuilder instances of the concurrent calls
    args,       \* process.argv.slice(2) of the status command
    accessible, \* the required files fs.access finds in the docs directory
    git,        \* how the git commands of getRepositoryInfo end
    tracking,   \* what git reports for each required file
    cpc,        \* position of the status command
    showIncomplete, \* args.includes("--incomplete")
    docsPath,   \* the directory processDocsDirectory was called with, or <<>>
    filePath,   \* the path processFile was called with, or <<>>
    progress,   \* what the getMemorybankProgress call of processFile settled with
    output,     \* the lines written by console.log and console.error, in order
    exitCode,   \* the exit code of the process, Running until it ends
    accessed,   \* the required files fs.access was called for, in order
    executed,   \* the git commands run by execAsync, in order
    checklist,  \* the locals of a getChecklistProgress call and what it settled with
    argv,       \* the argument list handed to getDocsPathValue or createLogger
    docsPathValue, \* what getDocsPathValue(argv) returned, or Null
    logger,     \* the Logger createLogger(argv) built (level, json), or Null
    logCalls,   \* the calls made on the logger so far: level, message, meta
    logged,     \* the lines the logger wrote with console.log, in order
    history,    \* the calls made on a ProgressBuilder used directly, in order
    returned    \* the documents its getProgress calls returned, in order

parserVars == <<readable, file, lines, idx, builder, pc, result, error>>
itemVars == <<itemLine, item>>
twoVars == <<calls, builders>>
\* the variables outside the single-call and item-parsing specifications
cliEnv == <<args, accessible, git, tracking>>
cliTrace == <<accessed, executed>>
cliVars ==
    <<cliEnv, cpc, showIncomplete, docsPath, filePath, progress, output, exitCode,
      cliTrace>>
checklistVars == <<checklist>>
directVars == <<history, returned>>
utilVars == <<argv, docsPathValue, logger, logCalls, logged, directVars>>
extVars == <<twoVars, cliVars, checklistVars, utilVars>>

vars == <<parserVars, itemVars, twoVars, cliVars, checklistVars, utilVars>>

----------------------------------------------------------------------------
\* Bounds

\* longest file, in lines
MaxLines == 4
\* longest text after the "- " marker in the item-parsing specification
MaxItemLen == 4
\* longest file, in lines, of the two concurrent calls
MaxTwoLines == 2

----------------------------------------------------------------------------
\* Code units

SP == " "
TAB == "\t"
NL == "\n"
U2705 == "U+2705"
U26A0 == "U+26A0"
UFE0F == "U+FE0F"
U274C == "U+274C"

\* the code units String.prototype.trim() removes, among those the model uses
WhiteSpace == {SP, TAB, NL, "\r"}

STATUS ==
    [COMPLETE |-> <<U2705>>,
     WARNING  |-> <<U26A0, UFE0F>>,
     ERROR    |-> <<U274C>>,
     PENDING  |-> <<"p", "e", "n", "d", "i", "n", "g">>]

Null == [null |-> TRUE]
NoError == "none"
SubsectionBeforeSection == "Found subsection before section"
ItemBeforeSection == "Found item before section"
\* the message of the error fs.readFile rejects with
ReadError == "ENOENT: no such file or directory"

----------------------------------------------------------------------------
\* String operations of the runtime, as the code uses them

\* s.startsWith(p)
StartsWith(s, p) == Len(s) >= Len(p) /\ SubSeq(s, 1, Len(p)) = p

\* s.slice(n), n >= 0
Slice(s, n) == SubSeq(s, n + 1, Len(s))

RECURSIVE TrimStart(_)
TrimStart(s) ==
    IF s # <<>> /\ Head(s) \in WhiteSpace THEN TrimStart(Tail(s)) ELSE s

RECURSIVE TrimEnd(_)
TrimEnd(s) ==
    IF s # <<>> /\ s[Len(s)] \in WhiteSpace
    THEN TrimEnd(SubSeq(s, 1, Len(s) - 1))
    ELSE s

\* s.trim()
Trim(s) == TrimEnd(TrimStart(s))

\* s.split("\n"): always at least one element, "" splits to [""]
RECURSIVE Split(_)
Split(s) ==
    IF \E i \in 1..Len(s) : s[i] = NL
    THEN LET i == CHOOSE k \in 1..Len(s) :
                      s[k] = NL /\ \A j \in 1..(k - 1) : s[j] # NL
         IN  <<SubSeq(s, 1, i - 1)>> \o Split(SubSeq(s, i + 1, Len(s)))
    ELSE <<s>>

----------------------------------------------------------------------------
\* ProgressBuilder

\* new ProgressBuilder(): currentSection and currentSubsection are references
\* into sections, modelled as positions (0 is null): currentSection indexes
\* sections, currentSubsection indexes sections[currentSection].subsections.
NewBuilder == [sections |-> <<>>, currentSection |-> 0, currentSubsection |-> 0]

\* the outcome of a builder method: the builder after it, and what it threw
Outcome(b, thrown) == [builder |-> b, thrown |-> thrown]

getProgress(b) ==
    [sections |->
        [i \in 1..Len(b.sections) |->
            [title |-> b.sections[i].title,
             subsections |->
                [j \in 1..Len(b.sections[i].subsections) |->
                    [title |-> b.sections[i].subsections[j].title,
                     items |->
                        [k \in 1..Len(b.sections[i].subsections[j].items) |->
                            [text |-> b.sections[i].subsections[j].items[k].text,
                             status |-> b.sections[i].subsections[j].items[k].status]]]]]]]

\* processSection that opens a Default subsection right away
processSection_EagerDefault(b, line) ==
    Outcome([sections |-> Append(b.sections,
                                 [title |-> Trim(Slice(line, 3)),
                                  subsections |-> <<[title |-> <<"D", "e", "f", "a", "u", "l", "t">>,
                                                     items |-> <<>>]>>]),
             currentSection |-> Len(b.sections) + 1,
             currentSubsection |-> 1],
            NoError)

\* processSection that appends the section and keeps the former current
\* section and subsection
processSection_KeepCurrent(b, line) ==
    Outcome([b EXCEPT !.sections = Append(@, [title |-> Trim(Slice(line, 3)),
                                               subsections |-> <<>>])],
            NoError)

processSection(b, line) ==
    Outcome([sections |-> Append(b.sections,
                                 [title |-> Trim(Slice(line, 3)), subsections |-> <<>>]),
             currentSection |-> Len(b.sections) + 1,
             currentSubsection |-> 0],
            NoError)

\* processSubsection that puts the new subsection first (unshift in place of
\* push)
processSubsection_Unshift(b, line) ==
    IF b.currentSection = 0
    THEN Outcome(b, SubsectionBeforeSection)
    ELSE LET cs == b.currentSection
             sub == [title |-> Trim(Slice(line, 4)), items |-> <<>>]
         IN  Outcome([b EXCEPT !.currentSubsection = 1,
                               !.sections[cs].subsections = <<sub>> \o @],
                     NoError)

\* processSubsection without its guard: the dereference of the null
\* currentSection throws the runtime's TypeError instead
processSubsection_NoGuard(b, line) ==
    IF b.currentSection = 0
    THEN Outcome(b, "Cannot read properties of null (reading 'subsections')")
    ELSE LET cs == b.currentSection
             sub == [title |-> Trim(Slice(line, 4)), items |-> <<>>]
         IN  Outcome([b EXCEPT !.currentSubsection = Len(b.sections[cs].subsections) + 1,
                               !.sections[cs].subsections = Append(@, sub)],
                     NoError)

processSubsection(b, line) ==
    IF b.currentSection = 0
    THEN Outcome(b, SubsectionBeforeSection)
    ELSE LET cs == b.currentSection
             sub == [title |-> Trim(Slice(line, 4)), items |-> <<>>]
         IN  Outcome([b EXCEPT !.currentSubsection = Len(b.sections[cs].subsections) + 1,
                               !.sections[cs].subsections = Append(@, sub)],
                     NoError)

\* getItemStatus with a substring search (includes) in place of startsWith
getItemStatus_Includes(text) ==
    LET Has(g) == \E i \in 0..Len(text) : StartsWith(Slice(text, i), g)
    IN  IF Has(STATUS.COMPLETE) THEN STATUS.COMPLETE
        ELSE IF Has(STATUS.WARNING) THEN STATUS.WARNING
        ELSE IF Has(STATUS.ERROR) THEN STATUS.ERROR
        ELSE STATUS.PENDING

getItemStatus(text) ==
    IF StartsWith(text, STATUS.COMPLETE) THEN STATUS.COMPLETE
    ELSE IF StartsWith(text, STATUS.WARNING) THEN STATUS.WARNING
    ELSE IF StartsWith(text, STATUS.ERROR) THEN STATUS.ERROR
    ELSE STATUS.PENDING

\* parseItem that removes one code unit for every glyph (slice(1) in place of
\* slice(status.length))
parseItem_SliceOne(line) ==
    LET itemText == Trim(Slice(line, 2))
        status == getItemStatus(itemText)
        text == IF status # STATUS.PENDING
                THEN Trim(Slice(itemText, 1))
                ELSE itemText
    IN  [text |-> text, status |-> status]

parseItem(line) ==
    LET itemText == Trim(Slice(line, 2))
        status == getItemStatus(itemText)
        text == IF status # STATUS.PENDING
                THEN Trim(Slice(itemText, Len(status)))
                ELSE itemText
    IN  [text |-> text, status |-> status]

\* the title of a synthesized subsection, "Default"
DefaultTitle == <<"D", "e", "f", "a", "u", "l", "t">>

\* processItem that does not keep the synthesized subsection as the current
\* one: every item met with no current subsection gets a Default of its own
processItem_AlwaysDefault(b, line) ==
    IF b.currentSection = 0
    THEN Outcome(b, ItemBeforeSection)
    ELSE LET cs == b.currentSection
         IN  IF b.currentSubsection = 0
             THEN Outcome([b EXCEPT !.sections[cs].subsections =
                                        Append(@, [title |-> DefaultTitle,
                                                   items |-> <<parseItem(line)>>])],
                          NoError)
             ELSE Outcome([b EXCEPT !.sections[cs].subsections[b.currentSubsection].items =
                                        Append(@, parseItem(line))],
                          NoError)

\* processItem whose guard throws the other method's message
processItem_WrongMessage(b, line) ==
    IF b.currentSection = 0
    THEN Outcome(b, SubsectionBeforeSection)
    ELSE LET cs == b.currentSection
             b1 == IF b.currentSubsection = 0
                   THEN [b EXCEPT !.currentSubsection = Len(b.sections[cs].subsections) + 1,
                                  !.sections[cs].subsections =
                                      Append(@, [title |-> DefaultTitle, items |-> <<>>])]
                   ELSE b
             sub == b1.currentSubsection
         IN  Outcome([b1 EXCEPT !.sections[cs].subsections[sub].items =
                                    Append(@, parseItem(line))],
                     NoError)

processItem(b, line) ==
    IF b.currentSection = 0
    THEN Outcome(b, ItemBeforeSection)
    ELSE LET cs == b.currentSection
             \* synthesize the Default subsection when none is current
             b1 == IF b.currentSubsection = 0
                   THEN [b EXCEPT !.currentSubsection = Len(b.sections[cs].subsections) + 1,
                                  !.sections[cs].subsections =
                                      Append(@, [title |-> DefaultTitle, items |-> <<>>])]
                   ELSE b
             sub == b1.currentSubsection
         IN  Outcome([b1 EXCEPT !.sections[cs].subsections[sub].items =
                                    Append(@, parseItem(line))],
                     NoError)

----------------------------------------------------------------------------
\* getMemorybankProgress

\* the loop body working on the raw line, with no trim
trimmedLine_NoTrim(line) == line

\* const trimmedLine = line.trim()
trimmedLine(line) == Trim(line)

SectionPrefix == <<"#", "#", SP>>
SubsectionPrefix == <<"#", "#", "#", SP>>
ItemPrefix == <<"-", SP>>

\* classify with the section test startsWith("##"), the space forgotten
classify_NoSpace(t) ==
    IF t = <<>> THEN "blank"
    ELSE IF StartsWith(t, <<"#", "#">>) /\ ~StartsWith(t, <<"#", "#", "#">>) THEN "section"
    ELSE IF StartsWith(t, SubsectionPrefix) THEN "subsection"
    ELSE IF StartsWith(t, ItemPrefix) THEN "item"
    ELSE "other"

\* classify with the item test startsWith("-"), the space forgotten
classify_ItemNoSpace(t) ==
    IF t = <<>> THEN "blank"
    ELSE IF StartsWith(t, SectionPrefix) THEN "section"
    ELSE IF StartsWith(t, SubsectionPrefix) THEN "subsection"
    ELSE IF StartsWith(t, <<"-">>) THEN "item"
    ELSE "other"

\* the branch of the loop body a trimmed line takes
classify(t) ==
    IF t = <<>> THEN "blank"
    ELSE IF StartsWith(t, SectionPrefix) THEN "section"
    ELSE IF StartsWith(t, SubsectionPrefix) THEN "subsection"
    ELSE IF StartsWith(t, ItemPrefix) THEN "item"
    ELSE "other"

\* The lines files are made of: headers and items at column 0 and indented,
\* with and without a status glyph, a blank line, a marker with no title and
\* a prose line.
LineSet ==
    { <<"#", "#", SP, "a">>,
      <<SP, "#", "#", SP, "b">>,
      <<"#", "#", "#", SP, "a">>,
      <<TAB, "#", "#", "#", SP, "b">>,
      <<"-", SP, "a">>,
      <<SP, "-", SP, U2705, SP, "b">>,
      <<>>,
      <<"#", "#", SP>>,
      <<"a">> }

RECURSIVE Join(_)
Join(ls) ==
    IF Len(ls) = 1 THEN ls[1] ELSE ls[1] \o <<NL>> \o Join(Tail(ls))

\* the files on disk: one to MaxLines lines joined by "\n" (the empty file is
\* the single line "")
Files == { Join(ls) : ls \in UNION { [1..n -> LineSet] : n \in 1..MaxLines } }

\* exit code of a process that has not ended
Running == -1

\* the status command is not part of the run
CliIdle ==
    /\ args = <<>>
    /\ accessible = {}
    /\ git = "ok"
    /\ tracking = [lsFiles |-> "output", status |-> "empty"]
    /\ cpc = "idle"
    /\ showIncomplete = FALSE
    /\ docsPath = <<>>
    /\ filePath = <<>>
    /\ progress = Null
    /\ output = <<>>
    /\ exitCode = Running
    /\ accessed = <<>>
    /\ executed = <<>>

\* no getChecklistProgress call is part of the run
ChecklistIdle == checklist = Null

\* neither getDocsPathValue alone nor a logger is part of the run
UtilIdle ==
    /\ argv = <<>>
    /\ docsPathValue = Null
    /\ logger = Null
    /\ logCalls = <<>>
    /\ logged = <<>>
    /\ history = <<>>
    /\ returned = <<>>

Init ==
    /\ ChecklistIdle
    /\ UtilIdle
    /\ CliIdle
    /\ \/ readable = TRUE /\ file \in Files
       \/ readable = FALSE /\ file = <<>>
    /\ lines = <<>>
    /\ idx = 0
    /\ builder = NewBuilder
    /\ pc = "start"
    /\ result = Null
    /\ error = NoError
    /\ itemLine = <<>>
    /\ item = Null
    /\ calls = <<>>
    /\ builders = <<>>

\* const content = await fs.readFile(...); content.split("\n"); new ProgressBuilder()
ReadFile ==
    /\ pc = "start"
    /\ readable
    /\ lines' = Split(file)
    /\ builder' = NewBuilder
    /\ idx' = 1
    /\ pc' = "loop"
    /\ UNCHANGED <<extVars, readable, file, result, error, itemLine, item>>

\* ReadFails with the read error swallowed and the file taken as empty
ReadFails_EmptyContent ==
    /\ pc = "start"
    /\ ~readable
    /\ lines' = <<<<>>>>
    /\ builder' = NewBuilder
    /\ idx' = 1
    /\ pc' = "loop"
    /\ UNCHANGED <<extVars, readable, file, result, error, itemLine, item>>

\* await fs.readFile(...) rejects: nothing catches it, the call rejects with
\* the read error
ReadFails ==
    /\ pc = "start"
    /\ ~readable
    /\ pc' = "rejected"
    /\ error' = ReadError
    /\ UNCHANGED <<extVars, readable, file, lines, idx, builder, result, itemLine, item>>

InLoop == pc = "loop" /\ idx >= 1 /\ idx <= Len(lines)

\* Apply with the throw caught inside the loop: the line is skipped and the
\* loop goes on
Apply_Recover(out) ==
    /\ builder' = out.builder
    /\ idx' = idx + 1
    /\ UNCHANGED <<pc, error>>

\* what one builder call does to the call: the loop goes on, or the error
\* thrown by the builder rejects the promise
Apply(out) ==
    IF out.thrown = NoError
    THEN /\ builder' = out.builder
         /\ idx' = idx + 1
         /\ UNCHANGED <<pc, error>>
    ELSE /\ pc' = "rejected"
         /\ error' = out.thrown
         /\ UNCHANGED <<builder, idx>>

\* if (!trimmedLine) continue
SkipBlank ==
    /\ InLoop
    /\ classify(trimmedLine(lines[idx])) = "blank"
    /\ idx' = idx + 1
    /\ UNCHANGED <<extVars, readable, file, lines, builder, pc, result, error, itemLine, item>>

SectionLine ==
    /\ InLoop
    /\ classify(trimmedLine(lines[idx])) = "section"
    /\ Apply(processSection(builder, trimmedLine(lines[idx])))
    /\ UNCHANGED <<extVars, readable, file, lines, result, itemLine, item>>

SubsectionLine ==
    /\ InLoop
    /\ classify(trimmedLine(lines[idx])) = "subsection"
    /\ Apply(processSubsection(builder, trimmedLine(lines[idx])))
    /\ UNCHANGED <<extVars, readable, file, lines, result, itemLine, item>>

ItemLine ==
    /\ InLoop
    /\ classify(trimmedLine(lines[idx])) = "item"
    /\ Apply(processItem(builder, trimmedLine(lines[idx])))
    /\ UNCHANGED <<extVars, readable, file, lines, result, itemLine, item>>

\* a line that matches no prefix falls through the if-chain
OtherLine ==
    /\ InLoop
    /\ classify(trimmedLine(lines[idx])) = "other"
    /\ idx' = idx + 1
    /\ UNCHANGED <<extVars, readable, file, lines, builder, pc, result, error, itemLine, item>>

\* return builder.getProgress()
Return ==
    /\ pc = "loop"
    /\ idx > Len(lines)
    /\ result' = getProgress(builder)
    /\ pc' = "resolved"
    /\ UNCHANGED <<extVars, readable, file, lines, idx, builder, error, itemLine, item>>

Next ==
    \/ ReadFile
    \/ ReadFails
    \/ SkipBlank
    \/ SectionLine
    \/ SubsectionLine
    \/ ItemLine
    \/ OtherLine
    \/ Return

Spec == Init /\ [][Next]_vars

----------------------------------------------------------------------------
\* Item parsing on its own: every text of up to MaxItemLen code units after
\* the "- " marker goes through the loop's classification and parseItem.

ItemAlphabet == {SP, TAB, U2705, U26A0, UFE0F, U274C, "a"}

ItemLines ==
    { ItemPrefix \o body :
        body \in UNION { [1..n -> ItemAlphabet] : n \in 0..MaxItemLen } }

InitItem ==
    /\ CliIdle
    /\ ChecklistIdle
    /\ UtilIdle
    /\ itemLine \in ItemLines
    /\ calls = <<>>
    /\ builders = <<>>
    /\ readable = TRUE
    /\ item = Null
    /\ file = <<>>
    /\ lines = <<>>
    /\ idx = 0
    /\ builder = NewBuilder
    /\ pc = "item"
    /\ result = Null
    /\ error = NoError

\* builder.processItem(trimmedLine) up to the item it appends
ParseItemLine ==
    /\ pc = "item"
    /\ item = Null
    /\ classify(trimmedLine(itemLine)) = "item"
    /\ item' = parseItem(trimmedLine(itemLine))
    /\ UNCHANGED <<extVars, readable, file, lines, idx, builder, pc, result, error, itemLine>>

NextItem == ParseItemLine

SpecItem == InitItem /\ [][NextItem]_vars

----------------------------------------------------------------------------
\* getMemorybankProgress as a function of the file's content: the loop run to
\* its end in one go.

\* the builder call the loop body makes for one line
LineOutcome(b, line) ==
    LET t == trimmedLine(line)
        kind == classify(t)
    IN  IF kind = "section" THEN processSection(b, t)
        ELSE IF kind = "subsection" THEN processSubsection(b, t)
        ELSE IF kind = "item" THEN processItem(b, t)
        ELSE Outcome(b, NoError)

RECURSIVE RunLoop(_, _, _)
RunLoop(b, ls, i) ==
    IF i > Len(ls)
    THEN [result |-> getProgress(b), error |-> NoError]
    ELSE LET out == LineOutcome(b, ls[i])
         IN  IF out.thrown = NoError
             THEN RunLoop(out.builder, ls, i + 1)
             ELSE [result |-> Null, error |-> out.thrown]

getMemorybankProgress(content) == RunLoop(NewBuilder, Split(content), 1)

----------------------------------------------------------------------------
\* Two getMemorybankProgress calls in flight at once (specification SpecTwo).
\* Each call has its own locals; the steps of the two calls interleave freely.

Calls == {1, 2}

TwoLineSet ==
    { <<"#", "#", SP, "a">>,
      <<"#", "#", "#", SP, "b">>,
      <<"-", SP, "a">>,
      <<>> }

TwoFiles == { Join(ls) : ls \in UNION { [1..n -> TwoLineSet] : n \in 1..MaxTwoLines } }

\* a builder shared by all calls (module-level state)
BuilderOf_Shared(c) == 1

\* const builder = new ProgressBuilder(): the instance call c works on is its own
BuilderOf(c) == c

InitTwo ==
    /\ calls \in [Calls -> {[file |-> f, lines |-> <<>>, idx |-> 0, pc |-> "start",
                             result |-> Null, error |-> NoError] : f \in TwoFiles}]
    /\ builders = [c \in Calls |-> NewBuilder]
    /\ CliIdle
    /\ ChecklistIdle
    /\ UtilIdle
    /\ readable = TRUE
    /\ file = <<>>
    /\ lines = <<>>
    /\ idx = 0
    /\ builder = NewBuilder
    /\ pc = "two"
    /\ result = Null
    /\ error = NoError
    /\ itemLine = <<>>
    /\ item = Null

\* call c: the read completes, the content is split, the builder constructed
TwoRead(c) ==
    /\ calls[c].pc = "start"
    /\ calls' = [calls EXCEPT ![c].lines = Split(calls[c].file), ![c].idx = 1,
                              ![c].pc = "loop"]
    /\ builders' = [builders EXCEPT ![BuilderOf(c)] = NewBuilder]
    /\ UNCHANGED <<parserVars, itemVars, cliVars, checklistVars, utilVars>>

\* call c: one pass of the loop body
TwoStep(c) ==
    /\ calls[c].pc = "loop"
    /\ calls[c].idx <= Len(calls[c].lines)
    /\ LET out == LineOutcome(builders[BuilderOf(c)], calls[c].lines[calls[c].idx])
       IN  IF out.thrown = NoError
           THEN /\ builders' = [builders EXCEPT ![BuilderOf(c)] = out.builder]
                /\ calls' = [calls EXCEPT ![c].idx = @ + 1]
           ELSE /\ calls' = [calls EXCEPT ![c].pc = "rejected", ![c].error = out.thrown]
                /\ UNCHANGED builders
    /\ UNCHANGED <<parserVars, itemVars, cliVars, checklistVars, utilVars>>

\* call c: return builder.getProgress()
TwoReturn(c) ==
    /\ calls[c].pc = "loop"
    /\ calls[c].idx > Len(calls[c].lines)
    /\ calls' = [calls EXCEPT ![c].pc = "resolved",
                              ![c].result = getProgress(builders[BuilderOf(c)])]
    /\ UNCHANGED <<builders, parserVars, itemVars, cliVars, checklistVars, utilVars>>

NextTwo == \E c \in Calls : TwoRead(c) \/ TwoStep(c) \/ TwoReturn(c)

SpecTwo == InitTwo /\ [][NextTwo]_vars

CallDone(c) == calls[c].pc \in {"resolved", "rejected"}

C12_Independent ==
    pc = "two" =>
        \A c \in Calls :
            /\ CallDone(c) =>
                  /\ calls[c].result = getMemorybankProgress(calls[c].file).result
                  /\ calls[c].error = getMemorybankProgress(calls[c].file).error
            /\ (calls[c].pc = "loop" /\ calls[c].idx = 1) => builders[c] = NewBuilder

C12_Witness ==
    /\ pc = "two"
    /\ calls[1].pc = "loop" /\ calls[1].idx = 2
    /\ calls[2].pc = "loop" /\ calls[2].idx = 2
    /\ builders[1].sections # <<>>
    /\ builders[2].sections = <<>>

----------------------------------------------------------------------------
\* The input as the claims describe it: the shape of each line of the file,
\* read off the line's text.

LineText(i) == Trim(lines[i])
IsSectionLine(i) == StartsWith(LineText(i), <<"#", "#", SP>>)
IsSubsectionLine(i) == StartsWith(LineText(i), <<"#", "#", "#", SP>>)
IsItemLine(i) == StartsWith(LineText(i), <<"-", SP>>)
IsIgnoredLine(i) == ~IsSectionLine(i) /\ ~IsSubsectionLine(i) /\ ~IsItemLine(i)

\* line i is reached while no section header has been processed
ReachedBeforeSection(i) == \A j \in 1..(i - 1) : IsIgnoredLine(j)

\* line i is a subsection header or an item with no section header before it
Offending(i) ==
    /\ IsSubsectionLine(i) \/ IsItemLine(i)
    /\ \A j \in 1..(i - 1) : ~IsSectionLine(j)

----------------------------------------------------------------------------
\* C1: an input in which a subsection header is reached before any section
\* header is rejected with 'Found subsection before section', at that line,
\* and no document is returned.
C1_SubsectionBeforeSection ==
    \A i \in 1..Len(lines) :
        (IsSubsectionLine(i) /\ ReachedBeforeSection(i)) =>
            /\ result = Null
            /\ pc # "resolved"
            /\ idx <= i
            /\ pc = "rejected" => (idx = i /\ error = SubsectionBeforeSection)

C1_Witness ==
    /\ pc = "rejected"
    /\ error = SubsectionBeforeSection
    /\ IsSubsectionLine(idx)
    /\ idx > 1

\* C2: an input in which an item line is reached before any section header is
\* rejected with 'Found item before section', at that line, and no document
\* is returned.
C2_ItemBeforeSection ==
    \A i \in 1..Len(lines) :
        (IsItemLine(i) /\ ReachedBeforeSection(i)) =>
            /\ result = Null
            /\ pc # "resolved"
            /\ idx <= i
            /\ pc = "rejected" => (idx = i /\ error = ItemBeforeSection)

C2_Witness ==
    /\ pc = "rejected"
    /\ error = ItemBeforeSection
    /\ IsItemLine(idx)
    /\ idx > 1

----------------------------------------------------------------------------
\* Item parsing (specification SpecItem)

\* the text after the "- " marker of the item line
Rest == Slice(itemLine, 2)

Glyphs == {STATUS.COMPLETE, STATUS.WARNING, STATUS.ERROR}

\* t is s with the whitespace around it removed
IsTrimOf(t, s) ==
    /\ t = <<>> \/ (t[1] \notin WhiteSpace /\ t[Len(t)] \notin WhiteSpace)
    /\ \E a \in 0..(Len(s) - Len(t)) :
          /\ SubSeq(s, a + 1, a + Len(t)) = t
          /\ \A i \in 1..Len(s) : (i <= a \/ i > a + Len(t)) => s[i] \in WhiteSpace

\* C4: when the text after "- " begins with a status glyph, the item has that
\* glyph's status and its text is what follows the glyph, with the whitespace
\* around it removed.
C4_GlyphItem ==
    item # Null =>
        \A g \in Glyphs :
            StartsWith(Rest, g) =>
                /\ item.status = g
                /\ IsTrimOf(item.text, Slice(Rest, Len(g)))

C4_Witness ==
    /\ item # Null
    /\ StartsWith(Rest, STATUS.WARNING)
    /\ item.status = STATUS.WARNING
    /\ item.text = <<"a">>

\* C5 as stated: when the text after "- " does not begin with a status glyph,
\* the item is Pending and its text is the trimmed remainder.
C5_Original ==
    item # Null =>
        ((\A g \in Glyphs : ~StartsWith(Rest, g)) =>
            /\ item.status = STATUS.PENDING
            /\ IsTrimOf(item.text, Rest))

\* C5, amended: when the text after "- ", with leading whitespace removed, does
\* not begin with a status glyph, the item is Pending and its text is the
\* trimmed remainder, a glyph later in the text included.
C5_PrefixTest ==
    item # Null =>
        ((\A g \in Glyphs : ~StartsWith(TrimStart(Rest), g)) =>
            /\ item.status = STATUS.PENDING
            /\ IsTrimOf(item.text, Rest))

C5_Witness ==
    /\ item # Null
    /\ Rest = <<"a", SP, U2705>>
    /\ item.status = STATUS.PENDING
    /\ item.text = Rest

----------------------------------------------------------------------------
C8_ErrorIsFinal ==
    \A i \in 1..Len(lines) :
        (Offending(i) /\ \A j \in 1..(i - 1) : ~Offending(j)) =>
            /\ idx <= i
            /\ pc # "resolved"
            /\ result = Null
            /\ builder = NewBuilder
            /\ pc = "rejected" => idx = i

C8_Witness ==
    /\ pc = "rejected"
    /\ idx < Len(lines)
    /\ IsSectionLine(idx + 1)
    /\ builder = NewBuilder
    /\ result = Null

----------------------------------------------------------------------------
\* The document the input describes, read off the lines without running the
\* builder.

RECURSIVE SortedSeq(_)
SortedSeq(S) ==
    IF S = {} THEN <<>>
    ELSE LET m == CHOOSE x \in S : \A y \in S : x <= y
         IN  <<m>> \o SortedSeq(S \ {m})

\* the section header lines, in input order
SectionHeaders == SortedSeq({i \in 1..Len(lines) : IsSectionLine(i)})

\* the lines of the k-th section: from its header to the next section header
SegmentEnd(k) ==
    IF k < Len(SectionHeaders) THEN SectionHeaders[k + 1] - 1 ELSE Len(lines)
Segment(k) == (SectionHeaders[k] + 1)..SegmentEnd(k)
SubsectionHeadersOf(k) == {i \in Segment(k) : IsSubsectionLine(i)}
ItemLinesOf(k) == {i \in Segment(k) : IsItemLine(i)}

\* the items of a set of item lines, in input order
ItemsAt(S) ==
    LET s == SortedSeq(S) IN [n \in 1..Len(s) |-> parseItem(LineText(s[n]))]

\* the lines of the k-th section that cause a subsection: its subsection
\* headers, and an item line that no subsection header or item line precedes
Causes(k) ==
    {i \in Segment(k) :
        \/ IsSubsectionLine(i)
        \/ IsItemLine(i) /\ \A j \in Segment(k) : j < i => IsIgnoredLine(j)}

ExpectedSubsections(k) ==
    LET c == SortedSeq(Causes(k))
        End(m) == IF m < Len(c) THEN c[m + 1] - 1 ELSE SegmentEnd(k)
    IN  [m \in 1..Len(c) |->
            [title |-> IF IsSubsectionLine(c[m])
                       THEN Trim(Slice(LineText(c[m]), 4))
                       ELSE DefaultTitle,
             items |-> ItemsAt({i \in c[m]..End(m) : IsItemLine(i)})]]

ExpectedDocument ==
    [sections |->
        [k \in 1..Len(SectionHeaders) |->
            [title |-> Trim(Slice(LineText(SectionHeaders[k]), 3)),
             subsections |-> ExpectedSubsections(k)]]]

\* the k-th section has item lines, none of them after a subsection header
ItemsBeforeAnySubsection(k) ==
    /\ ItemLinesOf(k) # {}
    /\ \A i \in ItemLinesOf(k) : \A j \in SubsectionHeadersOf(k) : i < j

\* C3 as stated: a section whose item lines are not preceded by a subsection
\* header has exactly one subsection, Default, holding those items in order.
C3_Original ==
    pc = "resolved" =>
        \A k \in 1..Len(SectionHeaders) :
            ItemsBeforeAnySubsection(k) =>
                /\ k <= Len(result.sections)
                /\ result.sections[k].subsections =
                       <<[title |-> DefaultTitle, items |-> ItemsAt(ItemLinesOf(k))]>>

\* C3, amended: a section whose item lines are not preceded by a subsection
\* header has Default as its first subsection, holding all those items in
\* order, followed by one subsection per subsection header of the section
\* (so Default is the only subsection when the section has no such header).
C3_DefaultSubsection ==
    pc = "resolved" =>
        \A k \in 1..Len(SectionHeaders) :
            ItemsBeforeAnySubsection(k) =>
                /\ k <= Len(result.sections)
                /\ Len(result.sections[k].subsections) =
                       1 + Cardinality(SubsectionHeadersOf(k))
                /\ result.sections[k].subsections[1] =
                       [title |-> DefaultTitle, items |-> ItemsAt(ItemLinesOf(k))]

C3_Witness ==
    /\ pc = "resolved"
    /\ \E k \in 1..Len(SectionHeaders) :
          /\ Cardinality(ItemLinesOf(k)) >= 2
          /\ SubsectionHeadersOf(k) = {}
          /\ Len(result.sections[k].subsections) = 1
          /\ Len(result.sections[k].subsections[1].items) >= 2

C9_DocumentOrder == pc = "resolved" => result = ExpectedDocument

C9_Witness ==
    /\ pc = "resolved"
    /\ Len(result.sections) = 2
    /\ result.sections[1].title # result.sections[2].title
    /\ Len(result.sections[1].subsections) = 2
    /\ result.sections[1].subsections[1].title = DefaultTitle
    /\ result.sections[1].subsections[2].title # DefaultTitle

\* line i has whitespace before a marker
IndentedMarker(i) ==
    /\ lines[i] # <<>>
    /\ Head(lines[i]) \in WhiteSpace
    /\ \/ StartsWith(TrimStart(lines[i]), <<"#", "#", SP>>)
       \/ StartsWith(TrimStart(lines[i]), <<"#", "#", "#", SP>>)
       \/ StartsWith(TrimStart(lines[i]), <<"-", SP>>)

Last(s) == s[Len(s)]

----------------------------------------------------------------------------
\* the position, among the subsections of section k, of the subsection that
\* line i causes
SubsectionRank(k, i) == Cardinality({j \in Causes(k) : j <= i})

\* no item line follows subsection header i before the next subsection header
\* or the end of section k
NoItemUnder(k, i) ==
    \A j \in ItemLinesOf(k) :
        j < i \/ \E h \in SubsectionHeadersOf(k) : i < h /\ h < j

\* C13: a section header followed by no item line and no subsection header
\* before the next section header gives a section with no subsections, and a
\* subsection header followed by no item line gives a subsection with no items.
C13_NothingWithoutCause ==
    pc = "resolved" =>
        \A k \in 1..Len(SectionHeaders) :
            /\ k <= Len(result.sections)
            /\ (SubsectionHeadersOf(k) = {} /\ ItemLinesOf(k) = {}) =>
                  result.sections[k].subsections = <<>>
            /\ \A i \in SubsectionHeadersOf(k) :
                  NoItemUnder(k, i) =>
                      /\ SubsectionRank(k, i) <= Len(result.sections[k].subsections)
                      /\ result.sections[k].subsections[SubsectionRank(k, i)].items = <<>>

C13_Witness ==
    /\ pc = "resolved"
    /\ Len(result.sections) = 2
    /\ result.sections[1].subsections = <<>>
    /\ Len(result.sections[2].subsections) = 2
    /\ result.sections[2].subsections[1].items = <<>>
    /\ result.sections[2].subsections[2].items = <<>>

\* C16: when the read fails the call rejects with the read error itself, which
\* is neither structural error, and no line is processed.
C16_ReadError ==
    (~readable /\ pc # "start") =>
        /\ pc = "rejected"
        /\ error = ReadError
        /\ error \notin {SubsectionBeforeSection, ItemBeforeSection}
        /\ lines = <<>>
        /\ idx = 0
        /\ builder = NewBuilder
        /\ result = Null

C16_Witness == ~readable /\ pc = "rejected" /\ error = ReadError

----------------------------------------------------------------------------
\* the section title the status report is about, "Implementation Status"
ImplementationStatus ==
    <<"I", "m", "p", "l", "e", "m", "e", "n", "t", "a", "t", "i", "o", "n",
      SP, "S", "t", "a", "t", "u", "s">>

NoStatusSection == "No Implementation Status section found"

\* the title of section header line i
SectionTitle(i) == Trim(Slice(LineText(i), 3))

\* C14 as stated: an input with no section titled 'Implementation Status' by
\* the end of the input (the empty file, a file with other sections only) is
\* rejected with 'No Implementation Status section found'.
C14_Claim ==
    (/\ readable
     /\ pc \in {"resolved", "rejected"}
     /\ \A i \in 1..Len(lines) :
           IsSectionLine(i) => SectionTitle(i) # ImplementationStatus) =>
        /\ pc = "rejected"
        /\ error = NoStatusSection

----------------------------------------------------------------------------
\* The status command (src/memorybank-status.ts), specification SpecCli.
\* A written line is a record of its stream and its text; the text is a
\* sequence whose elements are the fixed fragments of the message and the code
\* units of the values interpolated into it.

\* longest progress file of the status command, in lines
MaxCliLines == 3

Log(t) == [stream |-> "log", text |-> t]
Err(t) == [stream |-> "error", text |-> t]

RECURSIVE Flatten(_)
Flatten(ss) == IF ss = <<>> THEN <<>> ELSE Head(ss) \o Flatten(Tail(ss))

\* s.split(c)
RECURSIVE SplitBy(_, _)
SplitBy(s, c) ==
    IF \E i \in 1..Len(s) : s[i] = c
    THEN LET i == CHOOSE k \in 1..Len(s) :
                      s[k] = c /\ \A j \in 1..(k - 1) : s[j] # c
         IN  <<SubSeq(s, 1, i - 1)>> \o SplitBy(SubSeq(s, i + 1, Len(s)), c)
    ELSE <<s>>

\* parts.join(c)
RECURSIVE JoinBy(_, _)
JoinBy(parts, c) ==
    IF parts = <<>> THEN <<>>
    ELSE IF Len(parts) = 1 THEN parts[1]
    ELSE parts[1] \o <<c>> \o JoinBy(Tail(parts), c)

IncompleteFlag == <<"-", "-", "i", "n", "c", "o", "m", "p", "l", "e", "t", "e">>
DocsPathPrefix == <<"-", "-", "d", "o", "c", "s", "-", "p", "a", "t", "h", "=">>

HomeDir == <<"/", "h">>

\* path.join(a, b) for the paths of the model (no "." or ".." segments)
PathJoin(a, b) ==
    IF b = <<>> THEN a
    ELSE IF Head(b) = "/" THEN a \o b
    ELSE a \o <<"/">> \o b

\* toTildePath(inputPath)
toTildePath(inputPath) ==
    IF StartsWith(inputPath, <<"~">>)
    THEN PathJoin(HomeDir, Slice(inputPath, 1))
    ELSE inputPath

\* getDocsPathValue that takes split("=")[1] for the value
getDocsPathValue_SecondPart(as) ==
    IF \E i \in 1..Len(as) : StartsWith(as[i], DocsPathPrefix)
    THEN LET i == CHOOSE k \in 1..Len(as) :
                      /\ StartsWith(as[k], DocsPathPrefix)
                      /\ \A j \in 1..(k - 1) : ~StartsWith(as[j], DocsPathPrefix)
         IN  [found |-> TRUE, value |-> SplitBy(as[i], "=")[2]]
    ELSE [found |-> FALSE, value |-> <<>>]

\* getDocsPathValue(args): found is FALSE for undefined
getDocsPathValue(as) ==
    IF \E i \in 1..Len(as) : StartsWith(as[i], DocsPathPrefix)
    THEN LET i == CHOOSE k \in 1..Len(as) :
                      /\ StartsWith(as[k], DocsPathPrefix)
                      /\ \A j \in 1..(k - 1) : ~StartsWith(as[j], DocsPathPrefix)
             parts == Tail(SplitBy(as[i], "="))
         IN  [found |-> TRUE, value |-> JoinBy(parts, "=")]
    ELSE [found |-> FALSE, value |-> <<>>]

\* args.includes("--incomplete")
Includes(as, a) == \E i \in 1..Len(as) : as[i] = a

requiredFiles ==
    << <<"productContext.md">>, <<"activeContext.md">>, <<"systemPatterns.md">>,
       <<"techContext.md">>, <<"progress.md">> >>

RequiredSet == { requiredFiles[i] : i \in 1..Len(requiredFiles) }

\* the for-of loop of validateRepositories from file i on: fs.access of each
\* file in turn, the first that fails throws
RECURSIVE validateFrom(_, _, _)
validateFrom(acc, i, done) ==
    IF i > Len(requiredFiles)
    THEN [thrown |-> NoError, accessed |-> done]
    ELSE IF requiredFiles[i] \in acc
    THEN validateFrom(acc, i + 1, Append(done, requiredFiles[i]))
    ELSE [thrown |-> <<"Required file not found: ">> \o requiredFiles[i],
          accessed |-> Append(done, requiredFiles[i])]

\* a loop that goes through every file and throws for the last one missing
RECURSIVE validateAll(_, _, _, _)
validateAll(acc, i, done, thrown) ==
    IF i > Len(requiredFiles)
    THEN [thrown |-> thrown, accessed |-> done]
    ELSE validateAll(acc, i + 1, Append(done, requiredFiles[i]),
                     IF requiredFiles[i] \in acc THEN thrown
                     ELSE <<"Required file not found: ">> \o requiredFiles[i])

validateRepositories_CheckAll(acc) == validateAll(acc, 1, <<>>, NoError)

\* validateRepositories(docsPath): the message it throws, or NoError, and the
\* files it called fs.access for
validateRepositories(acc) == validateFrom(acc, 1, <<>>)

STATUS_ICONS ==
    [TRACKED |-> <<U2705>>, MODIFIED |-> <<U26A0, UFE0F>>, UNTRACKED |-> <<U274C>>]

GIT_REMOTE_HEADER == <<NL, "Git Remote:">>

\* the standard output of "git remote get-url origin"
RemoteOutput == <<"u", NL>>

\* JSON.stringify(s) of a string: quoted, line feeds escaped
Json(s) ==
    <<"\"">> \o [i \in 1..Len(s) |-> IF s[i] = NL THEN "\\n" ELSE s[i]] \o <<"\"">>

\* how the git commands of getRepositoryInfo can end: all succeed; the git
\* executable is missing (exit code 127); the directory is not a repository;
\* rev-parse fails otherwise; the remote cannot be read
GitOutcomes == {"ok", "notFound", "notRepo", "revParseError", "remoteError"}

\* how a git command run for a required file can end: it fails, it succeeds
\* and prints nothing, it succeeds and prints something
CommandOutcomes == {"fails", "empty", "output"}

\* what git does for the required files: the outcome of ls-files and, when
\* ls-files prints something, the outcome of status (else never run)
Trackings ==
    { t \in [lsFiles : CommandOutcomes, status : CommandOutcomes] :
        t.lsFiles # "output" => t.status = "empty" }

\* a file tracked and clean
Tracked == [lsFiles |-> "output", status |-> "empty"]

GitErrorMessage(g) ==
    IF g = "notFound" THEN <<"Command failed: /usr/bin/git rev-parse --git-dir">>
    ELSE IF g = "notRepo" THEN <<"fatal: not a git repository">>
    ELSE IF g = "revParseError" THEN <<"fatal: unsafe repository">>
    ELSE <<"error: No such remote 'origin'">>

\* getFileGitStatus whose catch takes a failed status command for a change
getFileGitStatus_FailureModified(t) ==
    IF t.lsFiles = "fails"
    THEN [icon |-> STATUS_ICONS.UNTRACKED, status |-> <<"not tracked in git">>]
    ELSE IF t.lsFiles = "empty"
    THEN [icon |-> STATUS_ICONS.UNTRACKED, status |-> <<"not tracked in git">>]
    ELSE IF t.status = "empty"
    THEN [icon |-> STATUS_ICONS.TRACKED, status |-> <<"tracked in git">>]
    ELSE [icon |-> STATUS_ICONS.MODIFIED, status |-> <<"modified">>]

\* getFileGitStatus(file, gitPath, cwd): a command that fails throws into the
\* catch block, which returns the untracked state
getFileGitStatus(t) ==
    IF t.lsFiles = "fails"
    THEN [icon |-> STATUS_ICONS.UNTRACKED, status |-> <<"not tracked in git">>]
    ELSE IF t.lsFiles = "empty"
    THEN [icon |-> STATUS_ICONS.UNTRACKED, status |-> <<"not tracked in git">>]
    ELSE IF t.status = "fails"
    THEN [icon |-> STATUS_ICONS.UNTRACKED, status |-> <<"not tracked in git">>]
    ELSE IF t.status = "empty"
    THEN [icon |-> STATUS_ICONS.TRACKED, status |-> <<"tracked in git">>]
    ELSE [icon |-> STATUS_ICONS.MODIFIED, status |-> <<"modified">>]

\* the git commands getFileGitStatus runs for a file: the status query is
\* reached only when ls-files succeeds with output
getFileGitCommands(f, t) ==
    IF t.lsFiles # "output"
    THEN << <<"ls-files --error-unmatch ">> \o f >>
    ELSE << <<"ls-files --error-unmatch ">> \o f, <<"status --porcelain ">> \o f >>

RevParse == <<"rev-parse --git-dir">>
RemoteGetUrl == <<"remote get-url origin">>

\* the lines of one "Project Context Documents" listing
DocumentLines(dir, icon, status) ==
    <<Log(<<NL, "Project Context Documents:">>)>> \o
    [i \in 1..Len(requiredFiles) |->
        Log(icon \o <<SP>> \o PathJoin(dir, requiredFiles[i]) \o <<SP, "(">> \o
            status \o <<")">>)]

\* getRepositoryInfo(docsPath): the lines it writes, the git commands it runs
\* and the message of the error it throws, or NoError
getRepositoryInfo(dir, g, t) ==
    LET header ==
            << Log(<<NL, "Project Context Information">>),
               Log(<<"=========================">>),
               Log(<<NL, "Documents Directory: ">> \o dir) >>
        remoteUrl == Trim(RemoteOutput)
        remote ==
            << Log(<<"[DEBUG] Executing git remote command...">>),
               Log(<<"[DEBUG] Git command:", SP, "/usr/bin/git remote get-url origin">>),
               Log(<<"[DEBUG] Raw git output:", SP>> \o Json(RemoteOutput)),
               Log(<<"[DEBUG] Trimmed remote URL:", SP>> \o Json(remoteUrl)),
               Log(<<"[DEBUG] About to log header:", SP>> \o Json(GIT_REMOTE_HEADER)),
               Log(GIT_REMOTE_HEADER),
               Log(<<"[DEBUG] About to log URL:", SP>> \o Json(remoteUrl)),
               Log(remoteUrl) >>
        remoteFailed ==
            << Log(<<"[DEBUG] Executing git remote command...">>),
               Log(<<"[DEBUG] Git command:", SP, "/usr/bin/git remote get-url origin">>),
               Log(<<"[DEBUG] Error getting git remote:", SP>> \o GitErrorMessage(g)) >>
        st == getFileGitStatus(t)
    IN  IF g = "ok"
        THEN [lines |-> header \o remote \o DocumentLines(dir, st.icon, st.status),
              executed |-> <<RevParse, RemoteGetUrl>> \o
                           Flatten([i \in 1..Len(requiredFiles) |->
                                       getFileGitCommands(requiredFiles[i], t)]),
              thrown |-> NoError]
        ELSE IF g = "notFound"
        THEN [lines |-> header \o
                        << Log(<<NL, "Git not available">>),
                           Log(<<"Git command failed or not found on system">>) >> \o
                        DocumentLines(dir, STATUS_ICONS.UNTRACKED, <<"git not available">>),
              executed |-> <<RevParse>>,
              thrown |-> NoError]
        ELSE IF g = "notRepo"
        THEN [lines |-> header \o
                        << Log(<<NL, "Not a git repository">>) >> \o
                        DocumentLines(dir, STATUS_ICONS.UNTRACKED, <<"not in git">>),
              executed |-> <<RevParse>>,
              thrown |-> NoError]
        ELSE IF g = "revParseError"
        THEN [lines |-> header, executed |-> <<RevParse>>,
              thrown |-> GitErrorMessage(g)]
        ELSE [lines |-> header \o remoteFailed,
              executed |-> <<RevParse, RemoteGetUrl>>,
              thrown |-> GitErrorMessage(g)]

\* printItem that, with the filter on, prints pending items only
printItem_PendingOnly(it, incomplete) ==
    IF ~incomplete \/ it.status = STATUS.PENDING
    THEN << Log(<<"-", SP>> \o
                (IF it.status = STATUS.PENDING THEN <<>> ELSE it.status) \o
                <<SP>> \o it.text) >>
    ELSE <<>>

\* printItem(item, showIncomplete): the lines it writes
printItem(it, incomplete) ==
    IF ~incomplete \/ it.status # STATUS.COMPLETE
    THEN << Log(<<"-", SP>> \o
                (IF it.status = STATUS.PENDING THEN <<>> ELSE it.status) \o
                <<SP>> \o it.text) >>
    ELSE <<>>

\* printSubsection(subsection, showIncomplete): the lines it writes
printSubsection(sub, incomplete) ==
    (IF sub.title # DefaultTitle
     THEN << Log(<<NL, "#", "#", "#", SP>> \o sub.title) >>
     ELSE <<>>) \o
    Flatten([i \in 1..Len(sub.items) |-> printItem(sub.items[i], incomplete)])

\* printSection without the title test: every section is printed
printSection_All(sec, incomplete) ==
    << Log(<<NL, "#", "#", SP>> \o sec.title) >> \o
    Flatten([i \in 1..Len(sec.subsections) |->
                printSubsection(sec.subsections[i], incomplete)])

\* the body of progress.sections.forEach in processFile, for one section
printSection(sec, incomplete) ==
    IF sec.title # ImplementationStatus
    THEN <<>>
    ELSE << Log(<<NL, "#", "#", SP>> \o sec.title) >> \o
         Flatten([i \in 1..Len(sec.subsections) |->
                     printSubsection(sec.subsections[i], incomplete)])

\* processFile that reports the error and lets the process go on
processFile_NoExit(path, settled, incomplete) ==
    IF settled.error = NoError
    THEN [lines |-> Flatten([i \in 1..Len(settled.result.sections) |->
                                printSection(settled.result.sections[i], incomplete)]),
          exit |-> 0]
    ELSE [lines |-> << Err(<<"Error processing ">> \o path \o <<": ", settled.error>>) >>,
          exit |-> 0]

\* processFile(filePath, showIncomplete), given what the getMemorybankProgress
\* call settled with: the lines it writes and the exit code of the process
processFile(path, settled, incomplete) ==
    IF settled.error = NoError
    THEN [lines |-> Flatten([i \in 1..Len(settled.result.sections) |->
                                printSection(settled.result.sections[i], incomplete)]),
          exit |-> 0]
    ELSE [lines |-> << Err(<<"Error processing ">> \o path \o <<": ", settled.error>>) >>,
          exit |-> 1]

\* the lines of the progress files of the status command
CliLineSet ==
    { <<"#", "#", SP>> \o ImplementationStatus,
      <<"#", "#", SP, "a">>,
      <<"#", "#", "#", SP, "b">>,
      <<"#", "#", "#", SP>> \o DefaultTitle,
      <<"-", SP, U2705, SP, "a">>,
      <<"-", SP, U26A0, UFE0F, SP, "b">>,
      <<"-", SP, "c">>,
      <<"t", "e", "x", "t">> }

CliFiles == { Join(ls) : ls \in UNION { [1..n -> CliLineSet] : n \in 1..MaxCliLines } }

DocsArg == DocsPathPrefix \o <<"/", "d">>
TildeArg == DocsPathPrefix \o <<"~", "/", "d">>
EmptyDocsArg == DocsPathPrefix
FileArg == <<"p", ".", "m", "d">>

\* the command lines of the model
ArgLists ==
    { <<>>, <<IncompleteFlag>>,
      <<DocsArg>>, <<DocsArg, IncompleteFlag>>, <<IncompleteFlag, DocsArg>>,
      <<TildeArg>>, <<EmptyDocsArg>>,
      <<FileArg>>, <<FileArg, IncompleteFlag>>, <<IncompleteFlag, FileArg>> }

\* the docs branch of the CLI entry is taken: docsPath is a non-empty string
DocsBranch(as) == getDocsPathValue(as).found /\ getDocsPathValue(as).value # <<>>

\* The environment of one run.  What the run never looks at is fixed: the docs
\* directory and git matter on the docs branch only, git only when every
\* required file is there, the tracking state only when git succeeds.  The
\* file processFile reads is drawn when it is read.
InitCli ==
    /\ ChecklistIdle
    /\ UtilIdle
    /\ args \in ArgLists
    /\ readable = TRUE
    /\ file = <<>>
    /\ accessible \in SUBSET RequiredSet
    /\ git \in GitOutcomes
    /\ tracking \in Trackings
    /\ ~DocsBranch(args) => (accessible = RequiredSet /\ git = "ok")
    /\ accessible # RequiredSet => git = "ok"
    /\ (git # "ok" \/ accessible # RequiredSet \/ ~DocsBranch(args)) =>
          tracking = Tracked
    /\ cpc = "start"
    /\ showIncomplete = FALSE
    /\ docsPath = <<>>
    /\ filePath = <<>>
    /\ progress = Null
    /\ output = <<>>
    /\ exitCode = Running
    /\ accessed = <<>>
    /\ executed = <<>>
    /\ lines = <<>>
    /\ idx = 0
    /\ builder = NewBuilder
    /\ pc = "cli"
    /\ result = Null
    /\ error = NoError
    /\ itemLine = <<>>
    /\ item = Null
    /\ calls = <<>>
    /\ builders = <<>>

cliRest == <<parserVars, itemVars, twoVars, checklistVars, utilVars, cliEnv>>

\* CLI entry, if (docsPath): processDocsDirectory(toTildePath(docsPath), showIncomplete)
CliDocs ==
    /\ cpc = "start"
    /\ DocsBranch(args)
    /\ showIncomplete' = Includes(args, IncompleteFlag)
    /\ docsPath' = toTildePath(getDocsPathValue(args).value)
    /\ cpc' = "validate"
    /\ UNCHANGED <<cliRest, filePath, progress, output, exitCode, cliTrace>>

\* CLI entry, else if (args.length > 0): processFile(toTildePath(args[0]), showIncomplete)
CliFile ==
    /\ cpc = "start"
    /\ ~DocsBranch(args)
    /\ Len(args) > 0
    /\ showIncomplete' = Includes(args, IncompleteFlag)
    /\ filePath' = toTildePath(args[1])
    /\ cpc' = "processFile"
    /\ UNCHANGED <<cliRest, docsPath, progress, output, exitCode, cliTrace>>

\* CLI entry, else: the usage error and process.exit(1)
CliUsage ==
    /\ cpc = "start"
    /\ ~DocsBranch(args)
    /\ Len(args) = 0
    /\ showIncomplete' = Includes(args, IncompleteFlag)
    /\ output' = Append(output, Err(<<"Please provide a file path or --docs-path">>))
    /\ exitCode' = 1
    /\ cpc' = "exited"
    /\ UNCHANGED <<cliRest, docsPath, filePath, progress, cliTrace>>

\* processDocsDirectory that gets the repository information before it validates
ValidateRepositories_Late ==
    /\ cpc = "validate"
    /\ LET validated == validateRepositories(accessible)
           info == getRepositoryInfo(docsPath, git, tracking)
       IN  /\ accessed' = accessed \o validated.accessed
           /\ executed' = executed \o info.executed
           /\ IF validated.thrown = NoError
              THEN /\ cpc' = "repositoryInfo"
                   /\ UNCHANGED <<output, exitCode>>
              ELSE /\ output' = output \o info.lines \o
                                <<Err(<<"Error:", SP>> \o validated.thrown)>>
                   /\ exitCode' = 1
                   /\ cpc' = "exited"
    /\ UNCHANGED <<cliRest, showIncomplete, docsPath, filePath, progress>>

\* processDocsDirectory: await validateRepositories(docsPath), and the catch
\* of processDocsDirectory when it throws
ValidateRepositories ==
    /\ cpc = "validate"
    /\ LET validated == validateRepositories(accessible)
       IN  /\ accessed' = accessed \o validated.accessed
           /\ IF validated.thrown = NoError
              THEN /\ cpc' = "repositoryInfo"
                   /\ UNCHANGED <<output, exitCode>>
              ELSE /\ output' = Append(output, Err(<<"Error:", SP>> \o validated.thrown))
                   /\ exitCode' = 1
                   /\ cpc' = "exited"
    /\ UNCHANGED <<cliRest, showIncomplete, docsPath, filePath, progress, executed>>

\* processDocsDirectory whose getRepositoryInfo rethrows every git error
GetRepositoryInfo_Strict ==
    /\ cpc = "repositoryInfo"
    /\ LET info == getRepositoryInfo(docsPath, git, tracking)
       IN  /\ executed' = executed \o info.executed
           /\ IF git = "ok"
              THEN /\ output' = output \o info.lines
                   /\ filePath' = PathJoin(docsPath, <<"progress.md">>)
                   /\ cpc' = "processFile"
                   /\ UNCHANGED exitCode
              ELSE /\ output' = output \o <<Err(<<"Error:", SP>> \o GitErrorMessage(git))>>
                   /\ exitCode' = 1
                   /\ cpc' = "exited"
                   /\ UNCHANGED filePath
    /\ UNCHANGED <<cliRest, showIncomplete, docsPath, progress, accessed>>

\* processDocsDirectory that goes on to progress.md whatever getRepositoryInfo
\* throws
GetRepositoryInfo_Continue ==
    /\ cpc = "repositoryInfo"
    /\ LET info == getRepositoryInfo(docsPath, git, tracking)
       IN  /\ executed' = executed \o info.executed
           /\ output' = output \o info.lines
           /\ filePath' = PathJoin(docsPath, <<"progress.md">>)
           /\ cpc' = "processFile"
           /\ UNCHANGED exitCode
    /\ UNCHANGED <<cliRest, showIncomplete, docsPath, progress, accessed>>

\* processDocsDirectory: await getRepositoryInfo(docsPath), then
\* path.join(docsPath, "progress.md"); its catch when getRepositoryInfo throws
GetRepositoryInfo ==
    /\ cpc = "repositoryInfo"
    /\ LET info == getRepositoryInfo(docsPath, git, tracking)
       IN  /\ executed' = executed \o info.executed
           /\ IF info.thrown = NoError
              THEN /\ output' = output \o info.lines
                   /\ filePath' = PathJoin(docsPath, <<"progress.md">>)
                   /\ cpc' = "processFile"
                   /\ UNCHANGED exitCode
              ELSE /\ output' = output \o info.lines \o
                                <<Err(<<"Error:", SP>> \o info.thrown)>>
                   /\ exitCode' = 1
                   /\ cpc' = "exited"
                   /\ UNCHANGED filePath
    /\ UNCHANGED <<cliRest, showIncomplete, docsPath, progress, accessed>>

\* processFile(filePath, showIncomplete): the parse settles before anything is
\* written; then the report, or the error message and process.exit(1)
ProcessFile ==
    /\ cpc = "processFile"
    /\ \/ readable' = TRUE /\ file' \in CliFiles
       \/ readable' = FALSE /\ file' = <<>>
    /\ LET settled == IF readable'
                      THEN getMemorybankProgress(file')
                      ELSE [result |-> Null, error |-> ReadError]
           done == processFile(filePath, settled, showIncomplete)
       IN  /\ progress' = settled
           /\ output' = output \o done.lines
           /\ exitCode' = done.exit
           /\ cpc' = IF settled.error = NoError THEN "done" ELSE "exited"
    /\ UNCHANGED <<lines, idx, builder, pc, result, error, itemVars, twoVars,
                   checklistVars, utilVars, cliEnv, cliTrace,
                   showIncomplete, docsPath, filePath>>

NextCli ==
    \/ CliDocs
    \/ CliFile
    \/ CliUsage
    \/ ValidateRepositories
    \/ GetRepositoryInfo
    \/ ProcessFile

SpecCli == InitCli /\ [][NextCli]_vars

CliEnded == cpc \in {"done", "exited"}

\* the getMemorybankProgress call of processFile has settled
Settled == progress # Null

\* the lines of the file processFile read, without the whitespace around them
ReadLine(i) == Trim(Split(file)[i])
IsReadSection(i) == StartsWith(ReadLine(i), <<"#", "#", SP>>)
IsStatusHeader(i) == IsReadSection(i) /\ Trim(Slice(ReadLine(i), 3)) = ImplementationStatus

\* the file read holds an 'Implementation Status' header and a later section header
StatusThenSection ==
    \E i, j \in 1..Len(Split(file)) : i < j /\ IsStatusHeader(i) /\ IsReadSection(j)

\* C15 as stated: for an input with a section titled 'Implementation Status'
\* followed later by another section header, getMemorybankProgress returns
\* exactly one section, the 'Implementation Status' one; the lines before it
\* and from the next section header on create nothing.
C15_Claim ==
    (Settled /\ readable /\ StatusThenSection) =>
        /\ progress.error = NoError
        /\ Len(progress.result.sections) = 1
        /\ progress.result.sections[1].title = ImplementationStatus

CurrentDirectory == <<".">>

\* C18 as stated: started with no argument at all, or with --incomplete only,
\* the command processes the Memory Bank files of the current directory and
\* prints their status.
C18_Claim ==
    (CliEnded /\ args \in {<<>>, <<IncompleteFlag>>}) =>
        /\ docsPath = CurrentDirectory
        /\ filePath = PathJoin(CurrentDirectory, <<"progress.md">>)

\* the items of the sections titled 'Implementation Status', in document order
ReportItems ==
    LET secs == SelectSeq(progress.result.sections,
                          LAMBDA sec : sec.title = ImplementationStatus)
        subs == Flatten([i \in 1..Len(secs) |-> secs[i].subsections])
    IN  Flatten([i \in 1..Len(subs) |-> subs[i].items])

\* the line of the report that shows an item
ItemLineText(it) ==
    <<"-", SP>> \o (IF it.status = STATUS.PENDING THEN <<>> ELSE it.status) \o
    <<SP>> \o it.text

\* the item lines written, in the order written
PrintedItemLines ==
    LET ls == SelectSeq(output, LAMBDA l : l.stream = "log" /\ StartsWith(l.text, <<"-", SP>>))
    IN  [i \in 1..Len(ls) |-> ls[i].text]

\* C19: with the incomplete-only filter on, an item is printed if and only if
\* its status is not Completed; with the filter off every item is printed;
\* the items printed appear once each, in document order.
C19_IncompleteFilter ==
    cpc = "done" =>
        LET shown == SelectSeq(ReportItems,
                               LAMBDA it : ~showIncomplete \/ it.status # STATUS.COMPLETE)
        IN  PrintedItemLines = [i \in 1..Len(shown) |-> ItemLineText(shown[i])]

\* a report with the filter on whose section holds a Completed item, which is
\* left out, and a PartiallyImplemented one, which is printed
C19_Witness ==
    /\ cpc = "done"
    /\ showIncomplete
    /\ \E i, j \in 1..Len(ReportItems) :
          /\ ReportItems[i].status = STATUS.COMPLETE
          /\ ReportItems[j].status = STATUS.WARNING
    /\ Len(PrintedItemLines) = 1

\* a section, subsection or item line of the report
IsReportLine(l) ==
    /\ l.stream = "log"
    /\ \/ StartsWith(l.text, <<"-", SP>>)
       \/ StartsWith(l.text, <<NL, "#", "#">>)

\* C20: when the parse fails (read error or structural error) processFile
\* writes one error message, the process ends with exit code 1, and no
\* section, subsection or item line of the report has been written.
C20_ParseFailure ==
    (Settled /\ progress.error # NoError) =>
        /\ cpc = "exited"
        /\ exitCode = 1
        /\ Cardinality({i \in 1..Len(output) : output[i].stream = "error"}) = 1
        /\ output[Len(output)].stream = "error"
        /\ \A i \in 1..Len(output) : ~IsReportLine(output[i])

\* a structural error in progress.md of the docs directory, after the
\* repository information was written
C20_Witness ==
    /\ Settled
    /\ progress.error = SubsectionBeforeSection
    /\ docsPath # <<>>
    /\ Len(output) > 1
    /\ exitCode = 1

----------------------------------------------------------------------------
\* The checklist parser (lib/checklist-parser.ts), specification SpecChecklist.
\* The regular expressions are modelled by what they match.

\* longest checklist file, in lines
MaxChecklistLines == 4

MAX_LENGTH == 1000

\* the character class [ \t]
Blank == {SP, TAB}

Max(S) == CHOOSE x \in S : \A y \in S : y <= x
Min(S) == CHOOSE x \in S : \A y \in S : x <= y

\* /^marker[ \t]{1,4}([^\r\n]{1,1000})$/.exec(line): whether it matches and
\* its group 1; the quantifier of the blanks is greedy
HeaderMatch(line, marker) ==
    LET rest == Slice(line, Len(marker))
        ks == { k \in 1..4 :
                  /\ k < Len(rest)
                  /\ Len(rest) - k <= MAX_LENGTH
                  /\ \A j \in 1..k : rest[j] \in Blank
                  /\ \A j \in (k + 1)..Len(rest) : rest[j] \notin {"\r", NL} }
    IN  IF StartsWith(line, marker) /\ ks # {}
        THEN [match |-> TRUE, group |-> Slice(rest, Max(ks))]
        ELSE [match |-> FALSE, group |-> <<>>]

\* parseSection(line)
parseSection(line) ==
    LET m == HeaderMatch(line, <<"#", "#">>)
    IN  IF m.match THEN [title |-> Trim(m.group), subsections |-> <<>>] ELSE Null

\* parseSubsection(line)
parseSubsection(line) ==
    LET m == HeaderMatch(line, <<"#", "#", "#">>)
    IN  IF m.match THEN [title |-> Trim(m.group), items |-> <<>>] ELSE Null

\* getStatus whose map has the cross mark and the warning sign exchanged
getStatus_Swapped(statusIndicator) ==
    IF statusIndicator = <<U2705>> THEN "completed"
    ELSE IF statusIndicator = <<U274C>> THEN "partially implemented"
    ELSE IF statusIndicator = <<U26A0, UFE0F>> THEN "not implemented"
    ELSE "pending"

\* getStatus(statusIndicator)
getStatus(statusIndicator) ==
    IF statusIndicator = <<U2705>> THEN "completed"
    ELSE IF statusIndicator = <<U274C>> THEN "not implemented"
    ELSE IF statusIndicator = <<U26A0, UFE0F>> THEN "partially implemented"
    ELSE "pending"

\* the length of the match of /^[ \t]{0,4}-[ \t]{1,4}/ in line, 0 for no match
ListItemPrefix(line) ==
    LET as == { a \in 0..4 :
                  /\ a < Len(line)
                  /\ \A j \in 1..a : line[j] \in Blank
                  /\ line[a + 1] = "-" }
    IN  IF as = {} THEN 0
        ELSE LET a == Max(as)
                 bs == { b \in 1..4 :
                           /\ a + 1 + b <= Len(line)
                           /\ \A j \in 1..b : line[a + 1 + j] \in Blank }
             IN  IF bs = {} THEN 0 ELSE a + 1 + Max(bs)

\* the indicator the status pattern matches at position i of s, <<>> for none
IndicatorAt(s, i) ==
    IF s[i] \in {U2705, U274C} THEN <<s[i]>>
    ELSE IF i < Len(s) /\ s[i] = U26A0 /\ s[i + 1] = UFE0F THEN <<U26A0, UFE0F>>
    ELSE <<>>

\* statusPattern.exec(s): the leftmost indicator followed by one to four
\* blanks; from and to delimit the match, indicator is its group 1
StatusMatch(s) ==
    LET at(i) == LET g == IndicatorAt(s, i)
                 IN  /\ g # <<>>
                     /\ i + Len(g) <= Len(s)
                     /\ s[i + Len(g)] \in Blank
        is == { i \in 1..Len(s) : at(i) }
    IN  IF is = {} THEN [match |-> FALSE, indicator |-> <<>>, from |-> 0, to |-> 0]
        ELSE LET i == Min(is)
                 g == IndicatorAt(s, i)
                 bs == { b \in 1..4 :
                           /\ i + Len(g) + b - 1 <= Len(s)
                           /\ \A j \in 0..(b - 1) : s[i + Len(g) + j] \in Blank }
             IN  [match |-> TRUE, indicator |-> g, from |-> i,
                  to |-> i + Len(g) + Max(bs) - 1]

\* extractStatusAndDescription(line)
extractStatusAndDescription(line) ==
    LET n == ListItemPrefix(line)
        withoutPrefix == Slice(line, n)
        statusMatch == StatusMatch(withoutPrefix)
        replaced == IF statusMatch.match
                    THEN SubSeq(withoutPrefix, 1, statusMatch.from - 1) \o
                         Slice(withoutPrefix, statusMatch.to)
                    ELSE withoutPrefix
        description == SubSeq(Trim(replaced), 1, Min({MAX_LENGTH, Len(Trim(replaced))}))
    IN  IF n = 0 THEN Null
        ELSE IF description = <<>> THEN Null
        ELSE [description |-> description, statusIndicator |-> statusMatch.indicator]

\* parseListItem(line)
parseListItem(line) ==
    LET extracted == extractStatusAndDescription(line)
    IN  IF extracted = Null THEN Null
        ELSE [description |-> extracted.description,
              status |-> getStatus(extracted.statusIndicator)]

\* shouldSkipLine(line)
shouldSkipLine(line) == line = <<>> \/ Len(line) > MAX_LENGTH

\* createContext(): currentSection and currentSubsection are references,
\* modelled as positions (0 is null)
createContext ==
    [progress |-> [sections |-> <<>>], currentSection |-> 0, currentSubsection |-> 0]

\* processLine that opens a Default subsection for an item met in a section
\* with no current subsection
processLine_DefaultSubsection(context, line) ==
    LET section == parseSection(line)
        subsection == parseSubsection(line)
        it == parseListItem(line)
        cs == context.currentSection
        css == context.currentSubsection
    IN  IF shouldSkipLine(line) THEN context
        ELSE IF section # Null
        THEN [progress |-> [sections |-> Append(context.progress.sections, section)],
              currentSection |-> Len(context.progress.sections) + 1,
              currentSubsection |-> 0]
        ELSE IF cs # 0 /\ subsection # Null
        THEN [context EXCEPT
                !.progress.sections[cs].subsections = Append(@, subsection),
                !.currentSubsection =
                    Len(context.progress.sections[cs].subsections) + 1]
        ELSE IF css # 0 /\ it # Null
        THEN [context EXCEPT
                !.progress.sections[cs].subsections[css].items = Append(@, it)]
        ELSE IF cs # 0 /\ it # Null
        THEN [context EXCEPT
                !.progress.sections[cs].subsections =
                    Append(@, [title |-> <<"D", "e", "f", "a", "u", "l", "t">>,
                               items |-> <<it>>]),
                !.currentSubsection =
                    Len(context.progress.sections[cs].subsections) + 1]
        ELSE context

\* processLine(context, line): the context after it.  Each parser is tried in
\* order and the first that succeeds ends the line.
processLine(context, line) ==
    LET section == parseSection(line)
        subsection == parseSubsection(line)
        it == parseListItem(line)
        cs == context.currentSection
        css == context.currentSubsection
    IN  IF shouldSkipLine(line) THEN context
        ELSE IF section # Null
        THEN [progress |-> [sections |-> Append(context.progress.sections, section)],
              currentSection |-> Len(context.progress.sections) + 1,
              currentSubsection |-> 0]
        ELSE IF cs # 0 /\ subsection # Null
        THEN [context EXCEPT
                !.progress.sections[cs].subsections = Append(@, subsection),
                !.currentSubsection =
                    Len(context.progress.sections[cs].subsections) + 1]
        ELSE IF css # 0 /\ it # Null
        THEN [context EXCEPT
                !.progress.sections[cs].subsections[css].items = Append(@, it)]
        ELSE context

UnknownError == "Unknown error occurred"

\* what fs.promises.readFile can reject with: an Error, or another value
ReadThrows ==
    { [isError |-> TRUE, message |-> ReadError],
      [isError |-> FALSE, message |-> "not an Error"] }

ChecklistLineSet ==
    { <<"#", "#", SP, "a">>,
      <<"#", "#", "#", SP, "b">>,
      <<"-", SP, U2705, SP, "c">>,
      <<SP, "-", SP, "c">>,
      <<"-", SP, SP, U274C, SP>>,
      <<"-", SP, U2705, "c">>,
      <<"-", SP, U26A0, UFE0F, SP, "c">>,
      <<"-", SP, U274C, TAB, "c">>,
      <<"-", SP, "x", SP, U2705, SP, "c">>,
      <<>> }

ChecklistFiles ==
    { Join(ls) : ls \in UNION { [1..n -> ChecklistLineSet] : n \in 1..MaxChecklistLines } }

InitChecklist ==
    /\ \/ readable = TRUE /\ file \in ChecklistFiles
       \/ readable = FALSE /\ file = <<>>
    /\ checklist = [pc |-> "start", lines |-> <<>>, idx |-> 0,
                    context |-> createContext, result |-> Null, error |-> NoError]
    /\ CliIdle
    /\ UtilIdle
    /\ lines = <<>>
    /\ idx = 0
    /\ builder = NewBuilder
    /\ pc = "checklist"
    /\ result = Null
    /\ error = NoError
    /\ itemLine = <<>>
    /\ item = Null
    /\ calls = <<>>
    /\ builders = <<>>

checklistRest == <<parserVars, itemVars, twoVars, cliVars, utilVars>>

\* await readFileContent(filePath); fileContent.split('\n'); createContext()
ChecklistRead ==
    /\ checklist.pc = "start"
    /\ readable
    /\ checklist' = [checklist EXCEPT !.lines = Split(file), !.idx = 1,
                                      !.context = createContext, !.pc = "loop"]
    /\ UNCHANGED checklistRest

\* the read rejects and nothing catches it
ChecklistReadFails_Rethrow ==
    /\ checklist.pc = "start"
    /\ ~readable
    /\ \E thrown \in ReadThrows :
          checklist' = [checklist EXCEPT !.error = thrown.message, !.pc = "rejected"]
    /\ UNCHANGED checklistRest

\* the read rejects: the catch block returns the empty progress with the message
ChecklistReadFails ==
    /\ checklist.pc = "start"
    /\ ~readable
    /\ \E thrown \in ReadThrows :
          checklist' =
              [checklist EXCEPT
                 !.result = [sections |-> <<>>,
                             error |-> IF thrown.isError THEN thrown.message
                                       ELSE UnknownError],
                 !.pc = "resolved"]
    /\ UNCHANGED checklistRest

\* lines.forEach((line) => processLine(context, line)), one line
ChecklistLine ==
    /\ checklist.pc = "loop"
    /\ checklist.idx <= Len(checklist.lines)
    /\ checklist' =
           [checklist EXCEPT
              !.context = processLine(@, checklist.lines[checklist.idx]),
              !.idx = @ + 1]
    /\ UNCHANGED checklistRest

\* return context.progress
ChecklistReturn ==
    /\ checklist.pc = "loop"
    /\ checklist.idx > Len(checklist.lines)
    /\ checklist' = [checklist EXCEPT !.result = checklist.context.progress,
                                      !.pc = "resolved"]
    /\ UNCHANGED checklistRest

NextChecklist ==
    \/ ChecklistRead
    \/ ChecklistReadFails
    \/ ChecklistLine
    \/ ChecklistReturn

SpecChecklist == InitChecklist /\ [][NextChecklist]_vars

\* C17: getChecklistProgress never rejects; when the read fails it resolves to
\* a value with an empty sections sequence and an error string, and when the
\* read succeeds it resolves to a document with no error field.
C17_NeverRejects ==
    /\ checklist.pc # "rejected"
    /\ checklist.pc = "resolved" =>
          IF readable
          THEN DOMAIN checklist.result = {"sections"}
          ELSE /\ DOMAIN checklist.result = {"sections", "error"}
               /\ checklist.result.sections = <<>>
               /\ checklist.result.error \in {ReadError, UnknownError}

\* a call whose read failed has resolved with the message of the error
C17_Witness ==
    /\ ~readable
    /\ checklist.pc = "resolved"
    /\ checklist.result = [sections |-> <<>>, error |-> ReadError]

----------------------------------------------------------------------------
\* processDocsDirectory and validateRepositories (specification SpecCli)

\* processDocsDirectory was called
DocsRun == docsPath # <<>>

\* C21: in processDocsDirectory validation comes first: when one of the five
\* required files is missing, the error 'Required file not found: <file>' is
\* written and the process exits with code 1, and no git command has been
\* run and no line of the repository information or of the report has been
\* written.
C21_ValidationFirst ==
    (DocsRun /\ accessible # RequiredSet) =>
        /\ executed = <<>>
        /\ \A i \in 1..Len(output) : output[i].stream # "log"
        /\ cpc \in {"validate", "exited"}
        /\ cpc = "exited" =>
              /\ exitCode = 1
              /\ \E f \in RequiredSet \ accessible :
                    output = << Err(<<"Error:", SP, "Required file not found: ">> \o f) >>

\* a run on a docs directory without progress.md has ended
C21_Witness ==
    /\ DocsRun
    /\ accessible = RequiredSet \ { <<"progress.md">> }
    /\ cpc = "exited"
    /\ Len(output) = 1
    /\ exitCode = 1

\* the five required files in the order they are checked
RequiredOrder ==
    << <<"productContext.md">>, <<"activeContext.md">>, <<"systemPatterns.md">>,
       <<"techContext.md">>, <<"progress.md">> >>

\* C22: validateRepositories resolves if and only if all five required files
\* are accessible; otherwise it rejects with 'Required file not found: <file>'
\* naming the first missing file of the fixed order and checks no file after it.
C22_FirstMissing ==
    (DocsRun /\ cpc # "validate") =>
        LET missing == { i \in 1..Len(RequiredOrder) : RequiredOrder[i] \notin accessible }
        IN  IF missing = {}
            THEN /\ accessed = RequiredOrder
                 /\ executed # <<>> \/ cpc = "repositoryInfo"
            ELSE LET k == Min(missing)
                 IN  /\ cpc = "exited"
                     /\ executed = <<>>
                     /\ accessed = SubSeq(RequiredOrder, 1, k)
                     /\ output = << Err(<<"Error:", SP, "Required file not found: ">> \o
                                       RequiredOrder[k]) >>

\* validation has failed in a directory where the second and the fourth file
\* are missing
C22_Witness ==
    /\ DocsRun
    /\ accessible = RequiredSet \ { <<"activeContext.md">>, <<"techContext.md">> }
    /\ cpc = "exited"
    /\ Len(accessed) = 2

\* the file read holds no section header, subsection header or item line
NoChecklistStructure ==
    \A i \in 1..Len(Split(file)) :
        /\ ~StartsWith(ReadLine(i), <<"#", "#", SP>>)
        /\ ~StartsWith(ReadLine(i), <<"#", "#", "#", SP>>)
        /\ ~StartsWith(ReadLine(i), <<"-", SP>>)

\* C23 as stated: when progress.md holds no recognizable checklist structure
\* (only a prose line, say), processDocsDirectory writes an error and the
\* process exits with code 1.
C23_Claim ==
    (DocsRun /\ Settled /\ readable /\ NoChecklistStructure) =>
        /\ exitCode = 1
        /\ \E i \in 1..Len(output) : output[i].stream = "error"

\* the lines of the documents listing: "<icon> <path> (<status>)"
ListedDocuments ==
    SelectSeq(output, LAMBDA l : l.stream = "log" /\ l.text[Len(l.text)] = ")")

\* text t has part p in it
HasPart(t, p) == \E i \in 1..Len(t) : t[i] = p

\* getRepositoryInfo has returned or thrown
InfoDone == cpc \in {"processFile", "done", "exited"} /\ executed # <<>>

\* C24: when the git executable is absent (exit code 127) or the docs
\* directory is not a git repository, getRepositoryInfo does not fail: it
\* lists each of the five documents once, in the fixed order, with the status
\* 'git not available' or 'not in git', and processDocsDirectory goes on to
\* parse progress.md and print the report.
C24_GitUnavailable ==
    (DocsRun /\ InfoDone /\ git \in {"notFound", "notRepo"}) =>
        LET status == IF git = "notFound" THEN "git not available" ELSE "not in git"
        IN  /\ Len(ListedDocuments) = Len(RequiredOrder)
            /\ \A i \in 1..Len(RequiredOrder) :
                  /\ HasPart(ListedDocuments[i].text, RequiredOrder[i][1])
                  /\ HasPart(ListedDocuments[i].text, status)
            /\ filePath = PathJoin(docsPath, <<"progress.md">>)
            /\ cpc = "processFile" =>
                  /\ exitCode = Running
                  /\ \A i \in 1..Len(output) : output[i].stream = "log"
            /\ cpc # "processFile" =>
                  /\ Settled
                  /\ progress.error = NoError =>
                        /\ cpc = "done"
                        /\ exitCode = 0
                        /\ Len(PrintedItemLines) =
                              Len(SelectSeq(ReportItems,
                                    LAMBDA it : ~showIncomplete \/
                                                it.status # STATUS.COMPLETE))
                  /\ progress.error # NoError => cpc = "exited"

\* outside a git repository the report of a progress.md with items was printed
C24_Witness ==
    /\ DocsRun
    /\ git = "notRepo"
    /\ cpc = "done"
    /\ Len(ListedDocuments) = 5
    /\ Len(PrintedItemLines) > 0

----------------------------------------------------------------------------
\* getDocsPathValue on its own (specification SpecArgs)

\* longest argument list
MaxArgs == 3

ArgAlphabet ==
    { IncompleteFlag,
      <<"-", "-", "o", "=", "v">>,
      DocsPathPrefix \o <<"/", "d">>,
      DocsPathPrefix \o <<"a", "=", "b">>,
      DocsPathPrefix,
      <<"-", "-", "d", "o", "c", "s", "-", "p", "a", "t", "h">>,
      <<"x">> \o DocsPathPrefix \o <<"/", "e">> }

InitArgs ==
    /\ argv \in UNION { [1..n -> ArgAlphabet] : n \in 0..MaxArgs }
    /\ docsPathValue = Null
    /\ logger = Null
    /\ logCalls = <<>>
    /\ logged = <<>>
    /\ history = <<>>
    /\ returned = <<>>
    /\ CliIdle
    /\ ChecklistIdle
    /\ readable = TRUE
    /\ file = <<>>
    /\ lines = <<>>
    /\ idx = 0
    /\ builder = NewBuilder
    /\ pc = "args"
    /\ result = Null
    /\ error = NoError
    /\ itemLine = <<>>
    /\ item = Null
    /\ calls = <<>>
    /\ builders = <<>>

\* const docsPath = getDocsPathValue(args)
GetDocsPathValue ==
    /\ docsPathValue = Null
    /\ docsPathValue' = getDocsPathValue(argv)
    /\ UNCHANGED <<parserVars, itemVars, twoVars, cliVars, checklistVars,
                   argv, logger, logCalls, logged, directVars>>

NextArgs == GetDocsPathValue

SpecArgs == InitArgs /\ [][NextArgs]_vars

\* the text of a after its first '='
AfterFirstEquals(a) ==
    LET k == CHOOSE i \in 1..Len(a) : a[i] = "=" /\ \A j \in 1..(i - 1) : a[j] # "="
    IN  SubSeq(a, k + 1, Len(a))

\* the arguments that start with '--docs-path=', in their order
DocsArguments == SelectSeq(argv, LAMBDA a : StartsWith(a, DocsPathPrefix))

\* C25: getDocsPathValue returns, for the first argument that starts with
\* '--docs-path=', the whole text after the first '=' (further '=' included),
\* and undefined when no argument starts with '--docs-path='; the other
\* arguments and their order do not change the result.
C25_DocsPathValue ==
    docsPathValue # Null =>
        IF DocsArguments = <<>>
        THEN ~docsPathValue.found
        ELSE /\ docsPathValue.found
             /\ docsPathValue.value = AfterFirstEquals(DocsArguments[1])

\* a value with '=' in it was returned from an argument that is not the first
C25_Witness ==
    /\ docsPathValue # Null
    /\ Len(argv) > 1
    /\ ~StartsWith(argv[1], DocsPathPrefix)
    /\ docsPathValue.found
    /\ docsPathValue.value = <<"a", "=", "b">>

----------------------------------------------------------------------------
\* The logger (Logger, parseLoggerOptions, createLogger in
\* src/memorybank-parser.ts), specification SpecLogger.

\* most calls made on one logger
MaxLogCalls == 2

LogLevel == [ERROR |-> 0, WARN |-> 1, INFO |-> 2, DEBUG |-> 3, TRACE |-> 4]

\* LogLevel[level], the reverse mapping of the enum
LevelName(level) == <<"ERROR", "WARN", "INFO", "DEBUG", "TRACE">>[level + 1]

VerboseFlag == <<"-", "-", "v", "e", "r", "b", "o", "s", "e">>
QuietFlag == <<"-", "-", "q", "u", "i", "e", "t">>
JsonFlag == <<"-", "-", "j", "s", "o", "n">>

\* parseLoggerOptions(argv)
parseLoggerOptions(as) ==
    [level |-> IF Includes(as, QuietFlag) THEN LogLevel.ERROR
               ELSE IF Includes(as, VerboseFlag) THEN LogLevel.DEBUG
               ELSE LogLevel.INFO,
     json |-> Includes(as, JsonFlag)]

\* createLogger(argv): new Logger(parseLoggerOptions(argv))
createLogger(as) ==
    LET options == parseLoggerOptions(as)
    IN  [level |-> options.level, json |-> options.json]

\* the metadata of a call: none, or one key with a value
Metas == {Null, [key |-> "k", value |-> "v"]}

\* JSON.stringify(meta) for the metadata of the model
MetaJson(meta) == <<"{\"", meta.key, "\":\"", meta.value, "\"}">>

\* the line Logger.log writes once the level has passed
LogLine(lg, level, message, meta, timestamp) ==
    IF lg.json
    THEN <<"{\"timestamp\":\"", timestamp, "\",\"level\":\"", LevelName(level),
           "\",\"message\":\"">> \o message \o <<"\"">> \o
         (IF meta = Null THEN <<>>
          ELSE <<",\"", meta.key, "\":\"", meta.value, "\"">>) \o <<"}">>
    ELSE <<timestamp, SP, "[", LevelName(level), "]", SP>> \o message \o
         (IF meta = Null THEN <<>> ELSE <<SP>> \o MetaJson(meta))

\* Logger.log that also drops the messages of the configured level itself
log_Exclusive(lg, level, message, meta, timestamp) ==
    IF level >= lg.level
    THEN <<>>
    ELSE << LogLine(lg, level, message, meta, timestamp) >>

\* Logger.log(level, message, meta): the lines it writes
log(lg, level, message, meta, timestamp) ==
    IF level > lg.level
    THEN <<>>
    ELSE << LogLine(lg, level, message, meta, timestamp) >>

LoggerArgvs ==
    UNION { [1..n -> {VerboseFlag, QuietFlag, JsonFlag}] : n \in 0..MaxArgs }

InitLogger ==
    /\ argv \in LoggerArgvs
    /\ docsPathValue = Null
    /\ logger = Null
    /\ logCalls = <<>>
    /\ logged = <<>>
    /\ history = <<>>
    /\ returned = <<>>
    /\ CliIdle
    /\ ChecklistIdle
    /\ readable = TRUE
    /\ file = <<>>
    /\ lines = <<>>
    /\ idx = 0
    /\ builder = NewBuilder
    /\ pc = "logger"
    /\ result = Null
    /\ error = NoError
    /\ itemLine = <<>>
    /\ item = Null
    /\ calls = <<>>
    /\ builders = <<>>

loggerRest ==
    <<parserVars, itemVars, twoVars, cliVars, checklistVars, argv, docsPathValue,
      directVars>>

\* const logger = createLogger(argv)
CreateLogger ==
    /\ logger = Null
    /\ logger' = createLogger(argv)
    /\ UNCHANGED <<loggerRest, logCalls, logged>>

\* new Date().toISOString() at the calls of one run, in order
Clock == <<"T1", "T2", "T3", "T4">>

\* one of error(), warn(), info(), debug(), trace(): this.log(level, message, meta)
LoggerCall(level) ==
    /\ logger # Null
    /\ Len(logCalls) < MaxLogCalls
    /\ \E meta \in Metas :
          /\ logCalls' = Append(logCalls, [level |-> level, message |-> <<"m">>,
                                           meta |-> meta])
          /\ logged' = logged \o log(logger, level, <<"m">>, meta, Clock[Len(logCalls) + 1])
    /\ UNCHANGED <<loggerRest, logger>>

\* the levels of error(), warn(), info(), debug() and trace()
Levels ==
    {LogLevel.ERROR, LogLevel.WARN, LogLevel.INFO, LogLevel.DEBUG, LogLevel.TRACE}

NextLogger ==
    \/ CreateLogger
    \/ \E level \in Levels : LoggerCall(level)

SpecLogger == InitLogger /\ [][NextLogger]_vars

\* the level the options of the command line ask for
ConfiguredLevel ==
    IF \E i \in 1..Len(argv) : argv[i] = QuietFlag THEN 0
    ELSE IF \E i \in 1..Len(argv) : argv[i] = VerboseFlag THEN 3
    ELSE 2

\* C26: a Logger writes a message if and only if its level is at most the
\* configured level in the order ERROR < WARN < INFO < DEBUG < TRACE; a logger
\* built by createLogger writes ERROR, WARN and INFO by default, DEBUG too
\* with --verbose, only ERROR with --quiet (also next to --verbose), and
\* never TRACE.
C26_LevelFilter ==
    logger # Null =>
        LET passed == SelectSeq(logCalls, LAMBDA c : c.level <= ConfiguredLevel)
        IN  /\ logger.level = ConfiguredLevel
            /\ Len(logged) = Len(passed)
            /\ \A i \in 1..Len(passed) :
                  HasPart(logged[i], <<"ERROR", "WARN", "INFO", "DEBUG">>[passed[i].level + 1])
            /\ \A i \in 1..Len(logged) : ~HasPart(logged[i], "TRACE")

\* with --verbose and --quiet both given, an error was written and a warning
\* was not
C26_Witness ==
    /\ logger # Null
    /\ \E i, j \in 1..Len(argv) : argv[i] = VerboseFlag /\ argv[j] = QuietFlag
    /\ Len(logCalls) = 2
    /\ logCalls[1].level = 1
    /\ logCalls[2].level = 0
    /\ Len(logged) = 1

----------------------------------------------------------------------------
\* A ProgressBuilder used directly: its methods called in any order
\* (specification SpecBuilder).  A call that throws leaves the builder usable.

\* most calls made on the builder
MaxCalls == 4

\* the object getProgress returns: its content when returned, and whether it
\* is built on the builder's own arrays.  Every map() in getProgress makes a
\* new array of new objects, so it is not.
returnedDocument_Shared(b) == [content |-> getProgress(b), shares |-> TRUE]

returnedDocument(b) == [content |-> getProgress(b), shares |-> FALSE]

\* what reading a returned document yields while the builder is b
Contents(d, b) == IF d.shares THEN getProgress(b) ELSE d.content

SectionLines == { <<"#", "#", SP, "a">>, <<"#", "#", SP, "b">> }
SubsectionLines == { <<"#", "#", "#", SP, "a">> }
ItemTextLines == { <<"-", SP, "a">>, <<"-", SP, U2705, SP, "b">> }

InitBuilder ==
    /\ builder = NewBuilder
    /\ error = NoError
    /\ history = <<>>
    /\ returned = <<>>
    /\ argv = <<>>
    /\ docsPathValue = Null
    /\ logger = Null
    /\ logCalls = <<>>
    /\ logged = <<>>
    /\ CliIdle
    /\ ChecklistIdle
    /\ readable = TRUE
    /\ file = <<>>
    /\ lines = <<>>
    /\ idx = 0
    /\ pc = "direct"
    /\ result = Null
    /\ itemLine = <<>>
    /\ item = Null
    /\ calls = <<>>
    /\ builders = <<>>

directRest ==
    <<readable, file, lines, idx, pc, result, itemVars, twoVars, cliVars, checklistVars,
      argv, docsPathValue, logger, logCalls, logged>>

\* builder.processSection(line)
DirectSection ==
    /\ Len(history) < MaxCalls
    /\ \E line \in SectionLines :
          /\ history' = Append(history, [op |-> "processSection", line |-> line])
          /\ builder' = processSection(builder, line).builder
          /\ error' = processSection(builder, line).thrown
    /\ UNCHANGED <<directRest, returned>>

\* builder.processSubsection(line)
DirectSubsection ==
    /\ Len(history) < MaxCalls
    /\ \E line \in SubsectionLines :
          /\ history' = Append(history, [op |-> "processSubsection", line |-> line])
          /\ builder' = processSubsection(builder, line).builder
          /\ error' = processSubsection(builder, line).thrown
    /\ UNCHANGED <<directRest, returned>>

\* builder.processItem(line)
DirectItem ==
    /\ Len(history) < MaxCalls
    /\ \E line \in ItemTextLines :
          /\ history' = Append(history, [op |-> "processItem", line |-> line])
          /\ builder' = processItem(builder, line).builder
          /\ error' = processItem(builder, line).thrown
    /\ UNCHANGED <<directRest, returned>>

\* builder.getProgress()
DirectGetProgress ==
    /\ Len(history) < MaxCalls
    /\ history' = Append(history, [op |-> "getProgress", line |-> <<>>])
    /\ returned' = Append(returned, returnedDocument(builder))
    /\ error' = NoError
    /\ UNCHANGED <<directRest, builder>>

NextBuilder ==
    \/ DirectSection
    \/ DirectSubsection
    \/ DirectItem
    \/ DirectGetProgress

SpecBuilder == InitBuilder /\ [][NextBuilder]_vars

Called(op) ==
    /\ Len(history') = Len(history) + 1
    /\ history'[Len(history')].op = op

\* the sections before the newest one are as they were before the step
EarlierSectionsKept ==
    /\ Len(builder'.sections) >= Len(builder.sections)
    /\ \A i \in 1..(Len(builder.sections) - 1) : builder'.sections[i] = builder.sections[i]

\* currentSection and currentSubsection of b point at the newest section and
\* at its newest subsection
PointsAtNewest(b) ==
    /\ (b.currentSection = 0) <=> (b.sections = <<>>)
    /\ b.currentSection # 0 => b.currentSection = Len(b.sections)
    /\ b.currentSubsection # 0 =>
          /\ b.currentSection # 0
          /\ b.currentSubsection = Len(b.sections[b.currentSection].subsections)

\* C29: in every reachable state of ProgressBuilder currentSection is null
\* exactly when sections is empty and otherwise is the last section;
\* currentSubsection, when not null, is the last subsection of currentSection;
\* hence no call changes a section other than the most recently opened one.
C29_BuilderInvariant ==
    /\ [](PointsAtNewest(builder))
    /\ [][EarlierSectionsKept]_vars

\* two sections, the first one closed with an item in a subsection, the second
\* one with a current subsection
C29_Witness ==
    /\ Len(builder.sections) = 2
    /\ Len(builder.sections[1].subsections) = 1
    /\ Len(builder.sections[1].subsections[1].items) = 1
    /\ builder.currentSubsection # 0
    /\ error = NoError

\* the position in h of the last processSection call, 0 when there is none
LastSectionCall(h) ==
    IF \E j \in 1..Len(h) : h[j].op = "processSection"
    THEN CHOOSE j \in 1..Len(h) :
            /\ h[j].op = "processSection"
            /\ \A k \in (j + 1)..Len(h) : h[k].op # "processSection"
    ELSE 0

\* the items of the processItem calls of h after position k, in call order
ItemsSince(h, k) ==
    LET calls_ == SelectSeq([j \in 1..(Len(h) - k) |-> h[k + j]],
                            LAMBDA c : c.op = "processItem")
    IN  [i \in 1..Len(calls_) |-> parseItem(calls_[i].line)]

\* C30: a section line always succeeds, from any state, and clears the
\* current subsection; the item lines that follow a section header with no
\* subsection header in between are never appended to a subsection of an
\* earlier section: they go to a new Default subsection of the newest section.
C30_SectionClears ==
    [][/\ Called("processSection") =>
            /\ error' = NoError
            /\ builder'.currentSubsection = 0
            /\ builder'.sections =
                   Append(builder.sections,
                          [title |-> Trim(Slice(history'[Len(history')].line, 3)),
                           subsections |-> <<>>])
       /\ (/\ Called("processItem")
           /\ LastSectionCall(history) # 0
           /\ \A j \in LastSectionCall(history)..Len(history) :
                 history[j].op # "processSubsection") =>
            /\ error' = NoError
            /\ Len(builder'.sections) = Len(builder.sections)
            /\ \A i \in 1..(Len(builder.sections) - 1) :
                  builder'.sections[i] = builder.sections[i]
            /\ builder'.sections[Len(builder'.sections)].subsections =
                   << [title |-> DefaultTitle,
                       items |-> ItemsSince(history', LastSectionCall(history))] >>]_vars

\* a section with a named subsection, then a second section whose item went
\* to a Default subsection of its own
C30_Witness ==
    /\ Len(builder.sections) = 2
    /\ Len(builder.sections[1].subsections) = 1
    /\ builder.sections[1].subsections[1].title # DefaultTitle
    /\ builder.sections[1].subsections[1].items = <<>>
    /\ Len(builder.sections[2].subsections) = 1
    /\ builder.sections[2].subsections[1].title = DefaultTitle
    /\ Len(builder.sections[2].subsections[1].items) = 1
    /\ error = NoError

----------------------------------------------------------------------------
\* Items of the checklist parser (specification SpecChecklist)

\* the forEach of getChecklistProgress is at a line
AtChecklistLine == checklist.pc = "loop" /\ checklist.idx <= Len(checklist.lines)

\* the line it is at
ChecklistLineText == checklist.lines[checklist.idx]

\* l is a list item line: at most four blanks, a dash and a blank
IsListLine(l) ==
    \E a \in 0..4 :
        /\ a + 2 <= Len(l)
        /\ \A j \in 1..a : l[j] \in {SP, TAB}
        /\ l[a + 1] = "-"
        /\ l[a + 2] \in {SP, TAB}

\* the text of a list item line: what follows the dash, trimmed
ListText(l) ==
    LET a == CHOOSE k \in 0..4 : (\A j \in 1..k : l[j] \in {SP, TAB}) /\ l[k + 1] = "-"
    IN  Trim(Slice(l, a + 1))

\* the glyph the text starts with, <<>> for none
LeadingGlyph(t) ==
    IF StartsWith(t, <<U2705>>) THEN <<U2705>>
    ELSE IF StartsWith(t, <<U274C>>) THEN <<U274C>>
    ELSE IF StartsWith(t, <<U26A0, UFE0F>>) THEN <<U26A0, UFE0F>>
    ELSE <<>>

\* no code unit of a glyph occurs in the text
NoGlyph(t) == \A i \in 1..Len(t) : t[i] \notin {U2705, U274C, U26A0, UFE0F}

StatusOfGlyph(g) ==
    IF g = <<U2705>> THEN "completed"
    ELSE IF g = <<U274C>> THEN "not implemented"
    ELSE "partially implemented"

\* the items of the current subsection of context c
CurrentItems(c) ==
    c.progress.sections[c.currentSection].subsections[c.currentSubsection].items

\* the step of the loop appends item it to the current subsection and changes
\* nothing else of the document
AppendsItem(it) ==
    /\ checklist'.context.currentSection = checklist.context.currentSection
    /\ checklist'.context.currentSubsection = checklist.context.currentSubsection
    /\ CurrentItems(checklist'.context) = Append(CurrentItems(checklist.context), it)

\* C28 as stated: an item line under a declared subsection gets status
\* 'completed' for a leading check mark, 'not implemented' for a cross mark,
\* 'partially implemented' for a warning sign and 'pending' when no glyph is
\* present, with the description the item text without the glyph; items keep
\* their input order.
C28_Original ==
    [][(/\ AtChecklistLine
        /\ checklist.context.currentSubsection # 0
        /\ IsListLine(ChecklistLineText)
        /\ ListText(ChecklistLineText) # <<>>) =>
          LET t == ListText(ChecklistLineText)
              g == LeadingGlyph(t)
          IN  /\ g # <<>> =>
                    AppendsItem([description |-> Trim(Slice(t, Len(g))),
                                 status |-> StatusOfGlyph(g)])
              /\ NoGlyph(t) => AppendsItem([description |-> t, status |-> "pending"])]_vars

\* C28, amended: the glyph counts when it leads the item text and a blank and
\* then text follow it; the item is appended after the items already there,
\* with that text, trimmed, for its description.  An item text without any
\* glyph gives a 'pending' item with the text for its description.
C28_ItemStatus ==
    [][(/\ AtChecklistLine
        /\ checklist.context.currentSubsection # 0
        /\ IsListLine(ChecklistLineText)
        /\ ListText(ChecklistLineText) # <<>>) =>
          LET t == ListText(ChecklistLineText)
              g == LeadingGlyph(t)
          IN  /\ (g # <<>> /\ Len(t) > Len(g) /\ t[Len(g) + 1] \in {SP, TAB}) =>
                    AppendsItem([description |-> Trim(Slice(t, Len(g))),
                                 status |-> StatusOfGlyph(g)])
              /\ NoGlyph(t) => AppendsItem([description |-> t, status |-> "pending"])]_vars

\* a subsection with a completed item followed by a pending one was returned
C28_Witness ==
    /\ checklist.pc = "resolved"
    /\ readable
    /\ checklist.result.sections # <<>>
    /\ checklist.result.sections[1].subsections # <<>>
    /\ checklist.result.sections[1].subsections[1].items =
           << [description |-> <<"c">>, status |-> "completed"],
              [description |-> <<"c">>, status |-> "pending"] >>

----------------------------------------------------------------------------
\* getMemorybankProgress over lines that look like markers (specification
\* SpecMarkers): the three kinds of line, blank and whitespace-only lines,
\* "# a", "#### a", "-a", prose, and markers followed by whitespace only.

MaxMarkerLines == 3

MarkerLineSet ==
    { <<"#", "#", SP, "a">>,
      <<"#", "#", "#", SP, "a">>,
      <<"-", SP, "a">>,
      <<>>,
      <<SP, TAB>>,
      <<"#", SP, "a">>,
      <<"#", "#", "#", "#", SP, "a">>,
      <<"-", "a">>,
      <<"a", SP, "b">>,
      <<"#", "#", SP>>,
      <<"#", "#", "#", SP, SP>> }

MarkerFiles ==
    { Join(ls) : ls \in UNION { [1..n -> MarkerLineSet] : n \in 1..MaxMarkerLines } }

InitMarkers ==
    /\ ChecklistIdle
    /\ UtilIdle
    /\ CliIdle
    /\ \/ readable = TRUE /\ file \in MarkerFiles
       \/ readable = FALSE /\ file = <<>>
    /\ lines = <<>>
    /\ idx = 0
    /\ builder = NewBuilder
    /\ pc = "start"
    /\ result = Null
    /\ error = NoError
    /\ itemLine = <<>>
    /\ item = Null
    /\ calls = <<>>
    /\ builders = <<>>

SpecMarkers == InitMarkers /\ [][Next]_vars

\* C31: blank lines and lines that match none of the three prefixes (prose,
\* '# Title', '#### Title', '-item' without a space) leave the sections, the
\* current section and the current subsection unchanged and raise no error,
\* in every state, before the first section included.
C31_IgnoredLines ==
    [][(InLoop /\ IsIgnoredLine(idx)) =>
          /\ builder' = builder
          /\ error' = NoError
          /\ pc' = "loop"
          /\ idx' = idx + 1]_vars

\* '-a' and '# a' before the first section and '#### a' after it were read
\* and the document holds the one section
C31_Witness ==
    /\ pc = "resolved"
    /\ lines = << <<"-", "a">>, <<"#", "#", SP, "a">>, <<"#", "#", "#", "#", SP, "a">> >>
    /\ result = [sections |-> << [title |-> <<"a">>, subsections |-> <<>>] >>]

\* the subsections of document d titled Default stand first in their section
DefaultFirst(d) ==
    \A k \in 1..Len(d.sections) :
        \A j \in 1..Len(d.sections[k].subsections) :
            d.sections[k].subsections[j].title = DefaultTitle => j = 1

\* C32: in every document returned by getMemorybankProgress each section
\* holds at most one synthesized Default subsection, and it is the first
\* subsection of its section: while a subsection is current, an item line
\* adds no subsection to any section.
C32_OneDefault ==
    /\ [](pc = "resolved" => DefaultFirst(result))
    /\ [][(InLoop /\ IsItemLine(idx) /\ builder.currentSubsection # 0) =>
             /\ Len(builder'.sections) = Len(builder.sections)
             /\ \A k \in 1..Len(builder.sections) :
                   Len(builder'.sections[k].subsections) =
                       Len(builder.sections[k].subsections)]_vars

\* a section whose Default subsection took two items and is followed by a
\* declared subsection
C32_Witness ==
    /\ pc = "resolved"
    /\ Len(result.sections) = 1
    /\ Len(result.sections[1].subsections) = 2
    /\ result.sections[1].subsections[1].title = DefaultTitle
    /\ Len(result.sections[1].subsections[1].items) = 2
    /\ result.sections[1].subsections[2].title # DefaultTitle

\* line i is a marker followed by whitespace only
IsBareMarker(i, marker) ==
    \E a, b \in 0..Len(lines[i]) :
        /\ a + Len(marker) + b = Len(lines[i])
        /\ b >= 1
        /\ \A j \in 1..a : lines[i][j] \in WhiteSpace
        /\ SubSeq(lines[i], a + 1, a + Len(marker)) = marker
        /\ \A j \in (a + Len(marker) + 1)..Len(lines[i]) : lines[i][j] \in WhiteSpace

\* every section and subsection of document d has a title of at least one
\* code unit
TitlesNonEmpty(d) ==
    \A k \in 1..Len(d.sections) :
        /\ Len(d.sections[k].title) >= 1
        /\ \A j \in 1..Len(d.sections[k].subsections) :
              Len(d.sections[k].subsections[j].title) >= 1

GlyphInside(t) ==
    \E i \in 2..Len(t) :
        \/ t[i] \in {U2705, U274C} /\ i < Len(t) /\ t[i + 1] \in {SP, TAB}
        \/ /\ t[i] = U26A0
           /\ i + 1 < Len(t)
           /\ t[i + 1] = UFE0F
           /\ t[i + 2] \in {SP, TAB}

\* C34 as stated: in getChecklistProgress status matching is a prefix test:
\* an item whose text holds a status glyph followed by whitespace somewhere
\* after its first character, and none at its start, gets status 'pending'
\* and the full item text, glyph included, for its description.
C34_Claim ==
    [][(/\ AtChecklistLine
        /\ checklist.context.currentSubsection # 0
        /\ IsListLine(ChecklistLineText)
        /\ LeadingGlyph(ListText(ChecklistLineText)) = <<>>
        /\ GlyphInside(ListText(ChecklistLineText))) =>
          AppendsItem([description |-> ListText(ChecklistLineText),
                       status |-> "pending"])]_vars

\* l is a header line of the checklist: the marker, a blank and more
IsChecklistHeader(l, marker) ==
    /\ Len(l) >= Len(marker) + 2
    /\ SubSeq(l, 1, Len(marker)) = marker
    /\ l[Len(marker) + 1] \in {SP, TAB}

\* the subsection headers of the file read that have a section header before
\* them
DeclaredSubsections ==
    { i \in 1..Len(checklist.lines) :
        /\ IsChecklistHeader(checklist.lines[i], <<"#", "#", "#">>)
        /\ \E j \in 1..(i - 1) : IsChecklistHeader(checklist.lines[j], <<"#", "#">>) }

RECURSIVE CountSubsections(_)
CountSubsections(sections) ==
    IF sections = <<>> THEN 0
    ELSE Len(Head(sections).subsections) + CountSubsections(Tail(sections))

\* C35: getChecklistProgress never raises a structural error and never
\* synthesizes a Default subsection: a subsection header met before any
\* section, and an item line met while no subsection is current, are dropped
\* without changing the document, so the subsections of the result are the
\* declared ones.
C35_OrphansDropped ==
    /\ [](/\ checklist.pc # "rejected"
          /\ (checklist.pc = "resolved" /\ readable) =>
                /\ DOMAIN checklist.result = {"sections"}
                /\ CountSubsections(checklist.result.sections) =
                       Cardinality(DeclaredSubsections)
                /\ \A k \in 1..Len(checklist.result.sections) :
                      \A j \in 1..Len(checklist.result.sections[k].subsections) :
                          checklist.result.sections[k].subsections[j].title # DefaultTitle)
    /\ [][(/\ AtChecklistLine
           /\ \/ /\ IsChecklistHeader(ChecklistLineText, <<"#", "#", "#">>)
                 /\ checklist.context.currentSection = 0
              \/ /\ IsListLine(ChecklistLineText)
                 /\ checklist.context.currentSubsection = 0) =>
             checklist'.context = checklist.context]_vars

\* a subsection header and an item before the section, an item right after
\* it: the document holds the section alone
C35_Witness ==
    /\ checklist.pc = "resolved"
    /\ readable
    /\ checklist.lines = << <<"#", "#", "#", SP, "b">>, <<SP, "-", SP, "c">>,
                            <<"#", "#", SP, "a">>, <<"-", SP, U2705, SP, "c">> >>
    /\ checklist.result = [sections |-> << [title |-> <<"a">>, subsections |-> <<>>] >>]

----------------------------------------------------------------------------
\* git failures and the report of the status command (specification SpecCli)

\* C36: in getRepositoryInfo a git failure other than exit code 127 or a 'not
\* a git repository' message is rethrown: no document status line is printed,
\* processDocsDirectory logs the error and exits with code 1, and progress.md
\* is never parsed or reported.
C36_GitErrorRethrown ==
    (DocsRun /\ InfoDone /\ git \in {"revParseError", "remoteError"}) =>
        /\ cpc = "exited"
        /\ exitCode = 1
        /\ ListedDocuments = <<>>
        /\ \A i \in 1..Len(output) :
              /\ ~HasPart(output[i].text, "Project Context Documents:")
              /\ ~IsReportLine(output[i])
              /\ output[i].stream = "error" <=> i = Len(output)
        /\ output[Len(output)] = Err(<<"Error:", SP>> \o GitErrorMessage(git))
        /\ progress = Null
        /\ filePath = <<>>
        /\ executed = IF git = "revParseError" THEN <<RevParse>>
                      ELSE <<RevParse, RemoteGetUrl>>

\* the run has exited on a repository without an 'origin' remote
C36_Witness ==
    /\ DocsRun
    /\ git = "remoteError"
    /\ cpc = "exited"
    /\ executed = <<RevParse, RemoteGetUrl>>
    /\ exitCode = 1

\* the state the commands of the run lead to for each file
ExpectedGitStatus ==
    IF tracking.lsFiles \in {"fails", "empty"} THEN "not tracked in git"
    ELSE IF tracking.status = "empty" THEN "tracked in git"
    ELSE IF tracking.status = "output" THEN "modified"
    ELSE "not tracked in git"

\* the commands run for the required files
FileCommands == SubSeq(executed, 3, Len(executed))

IsLsFiles(c, f) == c = <<"ls-files --error-unmatch ", f>>
IsStatus(c, f) == c = <<"status --porcelain ", f>>

\* C37: getFileGitStatus never throws and returns one of three states: 'not
\* tracked in git' when ls-files fails or prints nothing, 'tracked in git'
\* when ls-files succeeds and status prints nothing, 'modified' when status
\* prints something; status is run only after ls-files succeeded with output,
\* and a failure of status yields 'not tracked in git'.
C37_FileGitStatus ==
    (DocsRun /\ InfoDone /\ git = "ok") =>
        /\ cpc # "exited" \/ Settled
        /\ Len(ListedDocuments) = Len(RequiredOrder)
        /\ \A i \in 1..Len(RequiredOrder) :
              /\ HasPart(ListedDocuments[i].text, RequiredOrder[i][1])
              /\ HasPart(ListedDocuments[i].text, ExpectedGitStatus)
        /\ IF tracking.lsFiles = "output"
           THEN /\ Len(FileCommands) = 2 * Len(RequiredOrder)
                /\ \A i \in 1..Len(RequiredOrder) :
                      /\ IsLsFiles(FileCommands[2 * i - 1], RequiredOrder[i][1])
                      /\ IsStatus(FileCommands[2 * i], RequiredOrder[i][1])
           ELSE /\ Len(FileCommands) = Len(RequiredOrder)
                /\ \A i \in 1..Len(RequiredOrder) :
                      IsLsFiles(FileCommands[i], RequiredOrder[i][1])

\* the status command failed for files that ls-files knows: they were listed
\* and the run goes on
C37_Witness ==
    /\ DocsRun
    /\ git = "ok"
    /\ tracking = [lsFiles |-> "output", status |-> "fails"]
    /\ cpc = "processFile"
    /\ Len(ListedDocuments) = 5
    /\ exitCode = Running

\* the report of document d as the claim describes it: the sections titled
\* 'Implementation Status' only, Default subsections without a heading
ExpectedReport(d) ==
    LET itemsOf(sub) ==
            LET shown == SelectSeq(sub.items,
                                   LAMBDA it : ~showIncomplete \/ it.status # STATUS.COMPLETE)
            IN  [i \in 1..Len(shown) |-> ItemLineText(shown[i])]
        subLines(sub) ==
            (IF sub.title = DefaultTitle THEN <<>>
             ELSE << <<NL, "#", "#", "#", SP>> \o sub.title >>) \o itemsOf(sub)
        secLines(sec) ==
            IF sec.title = ImplementationStatus
            THEN << <<NL, "#", "#", SP>> \o ImplementationStatus >> \o
                 Flatten([j \in 1..Len(sec.subsections) |-> subLines(sec.subsections[j])])
            ELSE <<>>
    IN  Flatten([k \in 1..Len(d.sections) |-> secLines(d.sections[k])])

\* the section, subsection and item lines written, in the order written
PrintedReport ==
    LET ls == SelectSeq(output, IsReportLine)
    IN  [i \in 1..Len(ls) |-> ls[i].text]

----------------------------------------------------------------------------
\* validateRepositories of checklist-status (specification SpecValidate).  The
\* run uses the default paths: the repository is the working directory, the
\* docs directory is its docs folder.  accessible holds the paths existsSync
\* finds, accessed the paths it was asked for, git how the exec of the remote
\* command ends.

\* process.cwd()
VSCODE_CONTEXT_PATH == HomeDir \o <<"/", "w">>
GitDirectory == PathJoin(VSCODE_CONTEXT_PATH, <<".", "g", "i", "t">>)
DOCS_PATH == PathJoin(VSCODE_CONTEXT_PATH, <<"d", "o", "c", "s">>)
IMPLEMENTATION_STATUS_PATH == PathJoin(DOCS_PATH, <<"I", ".", "m", "d">>)
ARCHITECTURE_DOC_PATH == PathJoin(DOCS_PATH, <<"A", ".", "m", "d">>)
TASKS_DOC_PATH == PathJoin(VSCODE_CONTEXT_PATH, <<"t", ".", "m", "d">>)
GitExecutable == <<"/", "u", "s", "r", "/", "b", "i", "n", "/", "g", "i", "t">>

ValidatePaths ==
    { VSCODE_CONTEXT_PATH, GitDirectory, DOCS_PATH, IMPLEMENTATION_STATUS_PATH,
      ARCHITECTURE_DOC_PATH, TASKS_DOC_PATH, GitExecutable }

\* toTildePath(fullPath) of checklist-status: the home directory becomes "~"
toTildePathChecklist(fullPath) ==
    IF StartsWith(fullPath, HomeDir)
    THEN <<"~">> \o Slice(fullPath, Len(HomeDir))
    ELSE fullPath

ReaddirError == <<"ENOTDIR: not a directory, scandir">>
ExecError == <<"Error: git error">>

\* the check mark of the progress lines
CheckMark == "U+2713"

\* the catch block of validateRepositories: the message is written and the
\* error rethrown
ValidationFails(message, written, asked) ==
    /\ output' = output \o written \o
                 << Err(<<"Repository validation failed:", SP>> \o message) >>
    /\ accessed' = accessed \o asked
    /\ error' = message
    /\ cpc' = "rejected"
    /\ UNCHANGED executed

validateRest ==
    <<readable, file, lines, idx, builder, pc, result, itemVars, twoVars, checklistVars,
      utilVars, cliEnv, showIncomplete, docsPath, filePath, progress, exitCode>>

InitValidate ==
    /\ ChecklistIdle
    /\ UtilIdle
    /\ args = <<>>
    /\ accessible \in SUBSET ValidatePaths
    /\ git \in {"ok", "remoteError"}
    /\ tracking = Tracked
    /\ cpc = "validate"
    /\ showIncomplete = FALSE
    /\ docsPath = <<>>
    /\ filePath = <<>>
    /\ progress = Null
    /\ output = <<>>
    /\ exitCode = Running
    /\ accessed = <<>>
    /\ executed = <<>>
    /\ readable = TRUE
    /\ file = <<>>
    /\ lines = <<>>
    /\ idx = 0
    /\ builder = NewBuilder
    /\ pc = "validate"
    /\ result = Null
    /\ error = NoError
    /\ itemLine = <<>>
    /\ item = Null
    /\ calls = <<>>
    /\ builders = <<>>

\* validateRepositories up to the end of validateVSCodeContext
ValidateVSCodeContext ==
    /\ cpc = "validate"
    /\ LET start ==
               << Log(<<NL, "Starting repository validation...">>),
                  Log(<<"Current working directory:", SP>> \o VSCODE_CONTEXT_PATH),
                  Log(<<"VSCODE_CONTEXT_PATH:", SP>> \o VSCODE_CONTEXT_PATH),
                  Log(<<"DOCS_PATH:", SP>> \o DOCS_PATH),
                  Log(<<"IMPLEMENTATION_STATUS_PATH:", SP>> \o IMPLEMENTATION_STATUS_PATH),
                  Log(<<"TASKS_DOC_PATH:", SP>> \o TASKS_DOC_PATH),
                  Log(<<NL, "Checking VSCode Context repository...">>) >>
           found == << Log(<<CheckMark, SP, "VSCode Context repository exists">>) >>
       IN  IF VSCODE_CONTEXT_PATH \notin accessible
           THEN ValidationFails(<<"VSCode Context repository not found at: ">> \o
                                    toTildePathChecklist(VSCODE_CONTEXT_PATH),
                                start, <<VSCODE_CONTEXT_PATH>>)
           ELSE IF GitDirectory \notin accessible
           THEN ValidationFails(toTildePathChecklist(VSCODE_CONTEXT_PATH) \o
                                    <<" is not a git repository">>,
                                start \o found, <<VSCODE_CONTEXT_PATH, GitDirectory>>)
           ELSE /\ output' = output \o start \o found \o
                       << Log(<<CheckMark, SP, "VSCode Context repository is a git repository">>) >>
                /\ accessed' = accessed \o <<VSCODE_CONTEXT_PATH, GitDirectory>>
                /\ cpc' = "docsDirectory"
                /\ UNCHANGED <<error, executed>>
    /\ UNCHANGED validateRest

\* await validateDocsDirectory(): readdir of a path that exists can still fail
ValidateDocsDirectory ==
    /\ cpc = "docsDirectory"
    /\ LET start == << Log(<<NL, "Checking Documentation directory...">>) >>
           found == << Log(<<CheckMark, SP, "Documentation directory exists at:", SP>> \o DOCS_PATH) >>
       IN  IF DOCS_PATH \notin accessible
           THEN ValidationFails(<<"Documentation directory not found at: ">> \o
                                    toTildePathChecklist(DOCS_PATH),
                                start, <<DOCS_PATH>>)
           ELSE \/ /\ output' = output \o start \o found \o
                          << Log(<<"Directory contents:", SP, "[entries]">>) >>
                   /\ accessed' = Append(accessed, DOCS_PATH)
                   /\ cpc' = "docFiles"
                   /\ UNCHANGED <<error, executed>>
                \/ ValidationFails(ReaddirError, start \o found, <<DOCS_PATH>>)
    /\ UNCHANGED validateRest

\* validateDocFiles with the tasks document checked first
ValidateDocFiles_TasksFirst ==
    /\ cpc = "docFiles"
    /\ LET start == << Log(<<NL, "Checking required documentation files...">>) >>
           found == << Log(<<CheckMark, SP, "Tasks document exists">>) >>
       IN  IF TASKS_DOC_PATH \notin accessible
           THEN ValidationFails(<<"Tasks document not found at: ">> \o TASKS_DOC_PATH,
                                start, <<TASKS_DOC_PATH>>)
           ELSE IF IMPLEMENTATION_STATUS_PATH \notin accessible
           THEN ValidationFails(<<"Implementation status document not found at: ">> \o
                                    IMPLEMENTATION_STATUS_PATH,
                                start \o found,
                                <<TASKS_DOC_PATH, IMPLEMENTATION_STATUS_PATH>>)
           ELSE /\ output' = output \o start \o found \o
                       << Log(<<CheckMark, SP, "Implementation status document exists">>) >>
                /\ accessed' = accessed \o <<TASKS_DOC_PATH, IMPLEMENTATION_STATUS_PATH>>
                /\ cpc' = "remoteUrl"
                /\ UNCHANGED <<error, executed>>
    /\ UNCHANGED validateRest

\* await validateDocFiles()
ValidateDocFiles ==
    /\ cpc = "docFiles"
    /\ LET start == << Log(<<NL, "Checking required documentation files...">>) >>
           found == << Log(<<CheckMark, SP, "Implementation status document exists">>) >>
       IN  IF IMPLEMENTATION_STATUS_PATH \notin accessible
           THEN ValidationFails(<<"Implementation status document not found at: ">> \o
                                    IMPLEMENTATION_STATUS_PATH,
                                start, <<IMPLEMENTATION_STATUS_PATH>>)
           ELSE IF TASKS_DOC_PATH \notin accessible
           THEN ValidationFails(<<"Tasks document not found at: ">> \o TASKS_DOC_PATH,
                                start \o found,
                                <<IMPLEMENTATION_STATUS_PATH, TASKS_DOC_PATH>>)
           ELSE /\ output' = output \o start \o found \o
                       << Log(<<CheckMark, SP, "Tasks document exists">>) >>
                /\ accessed' = accessed \o <<IMPLEMENTATION_STATUS_PATH, TASKS_DOC_PATH>>
                /\ cpc' = "remoteUrl"
                /\ UNCHANGED <<error, executed>>
    /\ UNCHANGED validateRest

RemoteCommand == <<"\"/usr/bin/git\" -C \"">> \o VSCODE_CONTEXT_PATH \o <<"\" remote get-url origin">>

\* getVSCodeContextRemoteUrl(): the text it resolves to, the command it runs
\* and what it writes to the error stream; the promise never rejects
getVSCodeContextRemoteUrl(acc, g) ==
    IF GitExecutable \notin acc
    THEN [url |-> <<"Could not determine remote URL (git not found)">>,
          executed |-> <<>>, errors |-> <<>>]
    ELSE IF g # "ok"
    THEN [url |-> <<"Could not determine remote URL">>,
          executed |-> <<RemoteCommand>>,
          errors |-> << Err(<<"exec error: ">> \o ExecError) >>]
    ELSE [url |-> Trim(RemoteOutput), executed |-> <<RemoteCommand>>, errors |-> <<>>]

\* the rest of the try block: the success report with the remote URL
ReportValidation ==
    /\ cpc = "remoteUrl"
    /\ LET remote == getVSCodeContextRemoteUrl(accessible, git)
           first ==
               << Log(<<"Repository and Document Validation Successful:">>),
                  Log(<<U2705, SP, "VSCode Context:">>),
                  Log(<<"   Path: ">> \o toTildePathChecklist(VSCODE_CONTEXT_PATH)) >>
           second ==
               << Log(<<NL, U2705, SP, "Code Repository:">>),
                  Log(<<"   Remote URL: ">> \o remote.url),
                  Log(<<NL, U2705, SP, "Documentation:">>),
                  Log(<<"   Docs_path: ">> \o toTildePathChecklist(DOCS_PATH)),
                  Log(<<"   Documents:">>),
                  Log(<<"     - Found implementation status: ">> \o
                          IMPLEMENTATION_STATUS_PATH) >> \o
               (IF ARCHITECTURE_DOC_PATH \in accessible
                THEN << Log(<<"     - Found architecture document: ">> \o
                                ARCHITECTURE_DOC_PATH) >>
                ELSE <<>>) \o
               << Log(<<"     - Found npm run, tasks, code actions doc:">> \o TASKS_DOC_PATH),
                  Log(<<>>) >>
       IN  /\ executed' = executed \o remote.executed
           /\ output' = output \o first \o remote.errors \o second
           /\ accessed' = accessed \o <<GitExecutable, ARCHITECTURE_DOC_PATH>>
           /\ cpc' = "resolved"
           /\ UNCHANGED error
    /\ UNCHANGED validateRest

NextValidate ==
    \/ ValidateVSCodeContext
    \/ ValidateDocsDirectory
    \/ ValidateDocFiles
    \/ ReportValidation

SpecValidate == InitValidate /\ [][NextValidate]_vars

\* the five checks in their order
CheckOrder ==
    <<VSCODE_CONTEXT_PATH, GitDirectory, DOCS_PATH, IMPLEMENTATION_STATUS_PATH,
      TASKS_DOC_PATH>>

\* the checks made so far
ChecksMade == SubSeq(accessed, 1, Min({Len(accessed), Len(CheckOrder)}))

\* the line of the success report that gives the remote URL
RemoteLines ==
    SelectSeq(output, LAMBDA l : l.stream = "log" /\ l.text # <<>> /\
                                 l.text[1] = "   Remote URL: ")

\* C39: validateRepositories of checklist-status runs its checks in the order
\* repository path, .git directory, docs directory, implementation-status
\* document, tasks document, and rethrows at the first failed check without
\* running the later ones; a failure to obtain the remote URL (git executable
\* missing or git command error) never makes validation fail, it is reported
\* as a 'Could not determine remote URL' text.
C39_CheckOrder ==
    /\ ChecksMade = SubSeq(CheckOrder, 1, Len(ChecksMade))
    /\ \A i \in 1..(Len(ChecksMade) - 1) : ChecksMade[i] \in accessible
    /\ (ChecksMade # <<>> /\ ChecksMade[Len(ChecksMade)] \notin accessible) =>
          /\ cpc = "rejected"
          /\ Len(accessed) = Len(ChecksMade)
          /\ executed = <<>>
          /\ output[Len(output)] =
                 Err(<<"Repository validation failed:", SP>> \o error)
    /\ cpc = "rejected" =>
          /\ error # NoError
          /\ RemoteLines = <<>>
          /\ Len(accessed) <= Len(CheckOrder)
    /\ Len(accessed) > Len(CheckOrder) =>
          /\ cpc = "resolved"
          /\ error = NoError
          /\ Len(RemoteLines) = 1
          /\ (GitExecutable \notin accessible) =>
                RemoteLines[1].text[2] = "Could not determine remote URL (git not found)"
          /\ (GitExecutable \in accessible /\ git # "ok") =>
                RemoteLines[1].text[2] = "Could not determine remote URL"

\* the git command failed after the five checks passed: validation resolved
C39_Witness ==
    /\ cpc = "resolved"
    /\ git = "remoteError"
    /\ GitExecutable \in accessible
    /\ Len(executed) = 1
    /\ \E i \in 1..Len(output) : output[i].stream = "error"

----------------------------------------------------------------------------
\* processFile of the earlier status command (src/unnamed/part_000), called
\* with a file path and the showIncomplete flag (specification SpecVariant)

\* the string literal the variant compares an item's status with: the three
\* code units U+00E2 U+0153 U+2026 of the source text
VariantCompleted == <<"U+00E2", "U+0153", "U+2026">>

\* the body of the innermost loop of the variant, for one item
variantItem(it, incomplete) ==
    IF ~incomplete \/ it.status # VariantCompleted
    THEN << Log(<<"-", SP>> \o
                (IF it.status = STATUS.PENDING THEN <<>> ELSE it.status) \o
                <<SP>> \o it.text) >>
    ELSE <<>>

\* the body of the loop over the subsections of a section
variantSubsection(sub, incomplete) ==
    (IF sub.title # DefaultTitle
     THEN << Log(<<NL, "#", "#", "#", SP>> \o sub.title) >>
     ELSE <<>>) \o
    Flatten([i \in 1..Len(sub.items) |-> variantItem(sub.items[i], incomplete)])

\* the body of the loop over the sections: every section is printed
variantSection(sec, incomplete) ==
    << Log(<<NL, "#", "#", SP>> \o sec.title) >> \o
    Flatten([i \in 1..Len(sec.subsections) |->
                variantSubsection(sec.subsections[i], incomplete)])

\* processFile(filePath, showIncomplete) of the variant, given what the
\* getMemorybankProgress call settled with
variantProcessFile(path, settled, incomplete) ==
    IF settled.error = NoError
    THEN [lines |-> Flatten([i \in 1..Len(settled.result.sections) |->
                                variantSection(settled.result.sections[i], incomplete)]),
          exit |-> 0]
    ELSE [lines |-> << Err(<<"Error processing ">> \o path \o <<":", SP, settled.error>>) >>,
          exit |-> 1]

InitVariant ==
    /\ ChecklistIdle
    /\ UtilIdle
    /\ args = <<>>
    /\ accessible = {}
    /\ git = "ok"
    /\ tracking = Tracked
    /\ cpc = "variant"
    /\ showIncomplete \in BOOLEAN
    /\ docsPath = <<>>
    /\ filePath = FileArg
    /\ progress = Null
    /\ output = <<>>
    /\ exitCode = Running
    /\ accessed = <<>>
    /\ executed = <<>>
    /\ readable = TRUE
    /\ file = <<>>
    /\ lines = <<>>
    /\ idx = 0
    /\ builder = NewBuilder
    /\ pc = "variant"
    /\ result = Null
    /\ error = NoError
    /\ itemLine = <<>>
    /\ item = Null
    /\ calls = <<>>
    /\ builders = <<>>

\* processFile(filePath, showIncomplete) of the variant
VariantProcessFile ==
    /\ cpc = "variant"
    /\ \/ readable' = TRUE /\ file' \in CliFiles
       \/ readable' = FALSE /\ file' = <<>>
    /\ LET settled == IF readable'
                      THEN getMemorybankProgress(file')
                      ELSE [result |-> Null, error |-> ReadError]
           done == variantProcessFile(filePath, settled, showIncomplete)
       IN  /\ progress' = settled
           /\ output' = output \o done.lines
           /\ exitCode' = done.exit
           /\ cpc' = IF settled.error = NoError THEN "done" ELSE "exited"
    /\ UNCHANGED <<lines, idx, builder, pc, result, error, itemVars, twoVars,
                   checklistVars, utilVars, cliEnv, cliTrace,
                   showIncomplete, docsPath, filePath>>

NextVariant == VariantProcessFile

SpecVariant == InitVariant /\ [][NextVariant]_vars

\* the items of the parsed document, in document order
AllItems ==
    LET subs == Flatten([i \in 1..Len(progress.result.sections) |->
                            progress.result.sections[i].subsections])
    IN  Flatten([i \in 1..Len(subs) |-> subs[i].items])

====
